---- MODULE Spec2Model ----
(***************************************************************************)
(* Publisher cycle of the AIKOL operations hub: schedule creation,         *)
(* dispatch, and runPublisherCycle / processSchedule with their store      *)
(* (schedules, accounts, publish attempts, post metrics, rate-limit        *)
(* snapshots, activity log).  Time is counted in minutes.                  *)
(***************************************************************************)
EXTENDS Integers, Sequences, FiniteSets, TLC

VARIABLES
  now,    \* the wall clock, in minutes
  db,     \* the store: schedules, accounts, variants, attempts, metrics, ...
  cyc,    \* the runPublisherCycle invocation in flight (or the last one)
  last,   \* what the most recent processSchedule call did (calls made, result)
  disp,   \* the dispatch invocations whose transaction is open
  calc,   \* a library function under evaluation: its inputs and its result
  rival   \* a second runPublisherCycle invocation, running beside cyc

vars == <<now, db, cyc, last, disp, calc, rival>>

----------------------------------------------------------------------------
(* Bounds of the model *)

MaxTime == 5
MaxSchedules == 2
MaxAttemptRows == 2
MaxDispatchRows == 4
MaxBacklog == 3
MaxCronBacklog == 2

----------------------------------------------------------------------------
(* Program constants *)

MinutesPerDay == 1440
MinutesPerMonth == 43200
RecentWindowMinutes == 4320
RecentCap == 250
DefaultMaxAttempts == 3
DefaultPriority == 100
DefaultLimit == 30

RETRY_MINUTES == <<2, 10, 30>>

NULL == 0 - 1          \* a null timestamp / number
NONE == "null"         \* a null string

Accounts == {"a1", "a2"}
Contents == {"c1"}

\* the instants at which the clock is read
Clock == {t \in 0 .. MaxTime : t \in {0, 2, 5, 7, 8, 10}}

\* inputs the handlers are driven with
ScheduleInputs == { [plannedAt |-> 0, priority |-> 1, maxAttempts |-> 1] }
Staggers == {0, 2}
DispatchTimes == {0}
CycleLimits == {1, 2, DefaultLimit}
StoreFaults == {"none", "txn", "log"}
\* dispatch payloads: scheduleAt (NULL when omitted) and staggerMinutes (NULL
\* when omitted)
DefaultStagger == 20
DispatchInstants == {NULL, 0}
DispatchStaggers == {NULL, 0, 2}

----------------------------------------------------------------------------
(* Small helpers *)

Max2(a, b) == IF a >= b THEN a ELSE b
Min2(a, b) == IF a <= b THEN a ELSE b

RECURSIVE SeqOfSet(_)
\* a set of integers as an ascending sequence
SeqOfSet(S) ==
  IF S = {} THEN <<>>
  ELSE LET m == CHOOSE x \in S : \A y \in S : x <= y
       IN <<m>> \o SeqOfSet(S \ {m})

Take(s, n) == IF Len(s) <= n THEN s ELSE SubSeq(s, 1, n)

startOfDay(t) == t - (t % MinutesPerDay)
\* a month that begins with every day
startOfMonth_EveryDay(t) == t - (t % MinutesPerDay)

startOfMonth(t) == t - (t % MinutesPerMonth)
addMinutes(t, m) == t + m

----------------------------------------------------------------------------
(* lib/crypto: sealed secrets.  A sealed value is <<tag, plaintext>>; only  *)
(* a value sealed under the process key opens.                              *)

encryptSecret(x) == <<"sealed", x>>
DecryptOk(p) == p[1] = "sealed"
decryptSecret(p) == p[2]
CorruptSecret(x) == <<"corrupt", x>>
NoSecret == <<"absent", NONE>>

----------------------------------------------------------------------------
(* lib/risk: tokens, Jaccard similarity.  A body is modelled by the set of  *)
(* tokens tokenize() yields for it.                                         *)

\* the similarity as a fraction <<numerator, denominator>>
\* a similarity counted from the first argument alone
jaccardSimilarity_OneSided(a, b) ==
  IF Cardinality(a) = 0 \/ Cardinality(b) = 0 THEN <<0, 1>>
  ELSE LET intersection == Cardinality({x \in a : x \in b})
       IN <<intersection, Cardinality(a)>>

jaccardSimilarity(a, b) ==
  IF Cardinality(a) = 0 \/ Cardinality(b) = 0 THEN <<0, 1>>
  ELSE LET intersection == Cardinality({x \in a : x \in b})
           union == Cardinality(a) + Cardinality(b) - intersection
       IN IF union = 0 THEN <<0, 1>> ELSE <<intersection, union>>

SimilarityThresholdPct == 86

isTooSimilar(input, existing) ==
  \E i \in DOMAIN existing :
    LET j == jaccardSimilarity(input, existing[i])
    IN 100 * j[1] >= SimilarityThresholdPct * j[2]

----------------------------------------------------------------------------
(* lib/variants: buildVariantBody, as token sets *)

suffixByIndex(index) ==
  LET templates == <<
        {},
        {"key", "point", "focus", "on", "clarity", "first"},
        {"angle", "this", "matters", "because", "execution", "speed", "compounds"},
        {"perspective", "tested", "with", "creator", "ops", "workflows"},
        {"takeaway", "adapt", "this", "to", "your", "own", "content", "cadence"} >>
  IN templates[(index % 5) + 1]

buildVariantBody(baseBody, account, index) ==
  LET lead == IF index % 2 = 0 THEN baseBody
              ELSE baseBody \cup {account.username, "edition"}
      languageLine == IF account.language = "zh" THEN {"zhline1", "zhline2"} ELSE {}
  IN lead \cup suffixByIndex(index) \cup languageLine

ContentBody(c) == {"ship", "early", "iterate", "often"}

----------------------------------------------------------------------------
(* Accounts as the store may hold them *)

BaseAccount(id) ==
  [ username |-> id,
    language |-> IF id = "a2" THEN "zh" ELSE "en",
    status |-> "ACTIVE",
    healthMessage |-> NONE,
    lastPostedAt |-> NULL,
    tokenExpiresAt |-> NULL,
    accessTokenEncrypted |-> encryptSecret("at0"),
    refreshTokenEncrypted |-> NoSecret,
    proxyEnabled |-> FALSE,
    proxyProtocol |-> NONE,
    proxyHost |-> NONE,
    proxyPort |-> NULL,
    proxyPasswordEncrypted |-> NoSecret,
    minIntervalMinutes |-> 5,
    dailyPostLimit |-> IF id = "a2" THEN 2 ELSE 1,
    monthlyPostLimit |-> IF id = "a2" THEN 3 ELSE 2 ]

\* the account rows the runs start from: the profiles of a1 and a2
AccountProfiles ==
  { <<"plain", "proxy">>, <<"expiring", "plain">>,
    <<"expired_norefresh", "expired_badrefresh">>,
    <<"badtoken", "proxy_incomplete">>, <<"proxy_badpw", "plain">> }

\* account rows whose secrets or proxy settings fail while the token is expired
TokenProfiles ==
  { <<"expired_norefresh", "badtoken_expired">>,
    <<"proxy_badpw_expired", "badtoken">>,
    <<"proxy_incomplete", "expired_badrefresh">> }

AccountOfProfile(id, p) ==
  LET b == BaseAccount(id)
      px == [b EXCEPT !.proxyEnabled = TRUE, !.proxyProtocol = "HTTP",
                      !.proxyHost = "proxy.example", !.proxyPort = 8080]
  IN CASE p = "plain" -> b
       [] p = "expiring" ->
            [b EXCEPT !.tokenExpiresAt = 1, !.refreshTokenEncrypted = encryptSecret("rt0")]
       [] p = "expired_norefresh" -> [b EXCEPT !.tokenExpiresAt = 0]
       [] p = "expired_badrefresh" ->
            [b EXCEPT !.tokenExpiresAt = 0, !.refreshTokenEncrypted = CorruptSecret("rt0")]
       [] p = "badtoken" -> [b EXCEPT !.accessTokenEncrypted = CorruptSecret("at0")]
       [] p = "proxy" -> [px EXCEPT !.proxyPasswordEncrypted = encryptSecret("pw")]
       [] p = "proxy_incomplete" -> [px EXCEPT !.proxyHost = NONE]
       [] p = "proxy_badpw" -> [px EXCEPT !.proxyPasswordEncrypted = CorruptSecret("pw")]
       [] p = "proxy_badpw_expired" ->
            [px EXCEPT !.proxyPasswordEncrypted = CorruptSecret("pw"),
                       !.tokenExpiresAt = 0]
       [] p = "badtoken_expired" ->
            [b EXCEPT !.accessTokenEncrypted = CorruptSecret("at0"),
                      !.tokenExpiresAt = 0,
                      !.refreshTokenEncrypted = encryptSecret("rt0")]

----------------------------------------------------------------------------
(* lib/x-api: the Platform client.  resp is what the network delivers: an   *)
(* HTTP response (status, x-rate-limit-reset as an offset from now) or a    *)
(* network error, on which fetch() throws.                                  *)

NetworkError == [kind |-> "network_error", status |-> NULL, reset |-> NULL]

Response(st, r) == [kind |-> "response", status |-> st, reset |-> r]

\* x-rate-limit-reset is given as minutes from now (NULL: no header)
PlatformResponses ==
  { Response(200, NULL), Response(401, NULL), Response(403, NULL),
    Response(429, 5), Response(500, NULL), NetworkError }

NoResponse == [kind |-> "none", status |-> NULL, reset |-> NULL]

publishPostToX(resp, t) ==
  IF resp.kind = "network_error"
  THEN [threw |-> TRUE, ok |-> FALSE, status |-> NULL, errorMessage |-> NONE,
        resetAt |-> NULL]
  ELSE LET ok == resp.status >= 200 /\ resp.status <= 299
       IN [threw |-> FALSE, ok |-> ok, status |-> resp.status,
           errorMessage |-> IF ok THEN NONE
                            ELSE "x_publish_failed_" \o ToString(resp.status),
           resetAt |-> IF resp.reset = NULL THEN NULL ELSE t + resp.reset]

\* what the token endpoint answers: ok (with or without a rotated refresh
\* token and an expiry), a failure response, or a network error
RefreshResponses ==
  { [kind |-> "ok", rotate |-> TRUE, expiresIn |-> 3],
    [kind |-> "ok", rotate |-> FALSE, expiresIn |-> NULL],
    [kind |-> "fail", rotate |-> FALSE, expiresIn |-> NULL],
    [kind |-> "throw", rotate |-> FALSE, expiresIn |-> NULL] }

NoRefresh == [kind |-> "fail", rotate |-> FALSE, expiresIn |-> NULL]

refreshAccessTokenOnX(refreshToken, rr, t) ==
  IF rr.kind = "throw"
  THEN [threw |-> TRUE, ok |-> FALSE, accessToken |-> NONE, refreshToken |-> NONE,
        expiresAt |-> NULL, errorMessage |-> NONE]
  ELSE IF rr.kind = "fail"
  THEN [threw |-> FALSE, ok |-> FALSE, accessToken |-> NONE, refreshToken |-> NONE,
        expiresAt |-> NULL, errorMessage |-> "refresh_failed"]
  \* the endpoint issues tokens it has not issued before
  ELSE [threw |-> FALSE, ok |-> TRUE, accessToken |-> "at" \o ToString(t + 1),
        refreshToken |-> IF rr.rotate THEN "rt" \o ToString(t + 1) ELSE NONE,
        expiresAt |-> IF rr.expiresIn = NULL THEN NULL ELSE t + Max2(1, rr.expiresIn),
        errorMessage |-> NONE]

----------------------------------------------------------------------------
(* lib/scheduler: helpers *)

\* computeRetryAt with the first delay for every attempt
computeRetryAt_FirstDelay(t, attemptCount, resetAt) ==
  LET retryByBackoff == addMinutes(t, RETRY_MINUTES[1])
  IN IF resetAt # NULL /\ resetAt > retryByBackoff THEN resetAt ELSE retryByBackoff

\* computeRetryAt without the rate-limit reset instant
computeRetryAt_BackoffOnly(t, attemptCount, resetAt) ==
  addMinutes(t, RETRY_MINUTES[Max2(0, Min2(Len(RETRY_MINUTES) - 1, attemptCount - 1)) + 1])

computeRetryAt(t, attemptCount, resetAt) ==
  LET idx == Max2(0, Min2(Len(RETRY_MINUTES) - 1, attemptCount - 1))
      retryByBackoff == addMinutes(t, RETRY_MINUTES[idx + 1])
  IN IF resetAt # NULL /\ resetAt > retryByBackoff THEN resetAt ELSE retryByBackoff

\* a proxy resolution that does not open the stored password
resolveProxyConfig_PasswordUnopened(schedule) ==
  LET a == schedule.account
  IN IF ~a.proxyEnabled THEN [error |-> NONE, proxy |-> "direct"]
     ELSE IF a.proxyProtocol \notin {"HTTP", "HTTPS"} \/ a.proxyHost = NONE
             \/ a.proxyPort = NULL \/ a.proxyPort = 0
     THEN [error |-> "Proxy is enabled but proxy settings are incomplete.",
           proxy |-> NONE]
     ELSE [error |-> NONE, proxy |-> "proxied"]

\* schedule is a selected row: the schedule's id, its fields (s), its account
\* and its variant body as they were read by the selection
resolveProxyConfig(schedule) ==
  LET a == schedule.account
  IN IF ~a.proxyEnabled THEN [error |-> NONE, proxy |-> "direct"]
     ELSE IF a.proxyProtocol \notin {"HTTP", "HTTPS"} \/ a.proxyHost = NONE
             \/ a.proxyPort = NULL \/ a.proxyPort = 0
     THEN [error |-> "Proxy is enabled but proxy settings are incomplete.",
           proxy |-> NONE]
     ELSE IF a.proxyPasswordEncrypted # NoSecret /\ ~DecryptOk(a.proxyPasswordEncrypted)
     THEN [error |-> "Cannot decrypt proxy password. Check TOKEN_ENCRYPTION_KEY.",
           proxy |-> NONE]
     ELSE [error |-> NONE, proxy |-> "proxied"]

\* a block transaction that also increments attemptCount
BlockTx_CountsAttempt(d, schedule, reason, accountStatus, t) ==
  [d EXCEPT
     !.schedules[schedule.id] =
        [@ EXCEPT !.status = "BLOCKED", !.lastError = reason, !.nextAttemptAt = NULL,
                  !.attemptCount = @ + 1],
     !.accounts[schedule.s.accountId] =
        IF accountStatus # NONE
        THEN [@ EXCEPT !.status = accountStatus, !.healthMessage = reason]
        ELSE @,
     !.attempts = Append(@,
        [scheduleId |-> schedule.id, accountId |-> schedule.s.accountId,
         attemptNo |-> schedule.s.attemptCount + 1, status |-> "BLOCKED",
         requestedAt |-> t, finishedAt |-> t, httpStatus |-> NULL,
         errorMessage |-> reason, rateLimitResetAt |-> NULL])]

\* the transaction of blockSchedule
BlockTx(d, schedule, reason, accountStatus, t) ==
  [d EXCEPT
     !.schedules[schedule.id] =
        [@ EXCEPT !.status = "BLOCKED", !.lastError = reason, !.nextAttemptAt = NULL],
     !.accounts[schedule.s.accountId] =
        IF accountStatus # NONE
        THEN [@ EXCEPT !.status = accountStatus, !.healthMessage = reason]
        ELSE @,
     !.attempts = Append(@,
        [scheduleId |-> schedule.id, accountId |-> schedule.s.accountId,
         attemptNo |-> schedule.s.attemptCount + 1, status |-> "BLOCKED",
         requestedAt |-> t, finishedAt |-> t, httpStatus |-> NULL,
         errorMessage |-> reason, rateLimitResetAt |-> NULL])]

\* The activity log is append-only and no handler reads it: the store keeps no
\* copy of it here, and logActivity is the point where its write may fail.
\* blockSchedule under a store fault f: "txn" fails the transaction (nothing is
\* written), "log" fails the activity-log write after the commit
blockSchedule(d, schedule, reason, accountStatus, t, f) ==
  IF f = "txn" THEN [db |-> d, threw |-> TRUE]
  ELSE [db |-> BlockTx(d, schedule, reason, accountStatus, t), threw |-> f = "log"]

CountPosted(d, accountId, since) ==
  Cardinality({i \in DOMAIN d.schedules :
     /\ d.schedules[i].accountId = accountId
     /\ d.schedules[i].status = "POSTED"
     /\ d.schedules[i].postedAt # NULL
     /\ d.schedules[i].postedAt >= since})

\* applyRiskGuards with the daily comparison made strict
applyRiskGuards_DailyStrict(d, schedule, recentBodies, t) ==
  LET a == schedule.account
      minNext == addMinutes(a.lastPostedAt, a.minIntervalMinutes)
      dayPosts == CountPosted(d, schedule.s.accountId, startOfDay(t))
      monthPosts == CountPosted(d, schedule.s.accountId, startOfMonth(t))
  IN IF a.lastPostedAt # NULL /\ minNext > t
     THEN [blockedReason |-> NONE, rescheduledAt |-> minNext]
     ELSE IF dayPosts > a.dailyPostLimit
     THEN [blockedReason |-> "Daily quota reached (" \o ToString(a.dailyPostLimit) \o ").",
           rescheduledAt |-> NULL]
     ELSE IF monthPosts >= a.monthlyPostLimit
     THEN [blockedReason |-> "Monthly quota reached (" \o ToString(a.monthlyPostLimit) \o ").",
           rescheduledAt |-> NULL]
     ELSE IF isTooSimilar(schedule.body, recentBodies)
     THEN [blockedReason |-> "Content too similar to recent published posts.",
           rescheduledAt |-> NULL]
     ELSE [blockedReason |-> NONE, rescheduledAt |-> NULL]

\* risk guards without the pacing interval
applyRiskGuards_NoPacing(d, schedule, recentBodies, t) ==
  LET a == schedule.account
      dayPosts == CountPosted(d, schedule.s.accountId, startOfDay(t))
      monthPosts == CountPosted(d, schedule.s.accountId, startOfMonth(t))
  IN IF dayPosts >= a.dailyPostLimit
     THEN [blockedReason |-> "Daily quota reached (" \o ToString(a.dailyPostLimit) \o ").",
           rescheduledAt |-> NULL]
     ELSE IF monthPosts >= a.monthlyPostLimit
     THEN [blockedReason |-> "Monthly quota reached (" \o ToString(a.monthlyPostLimit) \o ").",
           rescheduledAt |-> NULL]
     ELSE IF isTooSimilar(schedule.body, recentBodies)
     THEN [blockedReason |-> "Content too similar to recent published posts.",
           rescheduledAt |-> NULL]
     ELSE [blockedReason |-> NONE, rescheduledAt |-> NULL]

applyRiskGuards(d, schedule, recentBodies, t) ==
  LET a == schedule.account
      minNext == addMinutes(a.lastPostedAt, a.minIntervalMinutes)
      dayPosts == CountPosted(d, schedule.s.accountId, startOfDay(t))
      monthPosts == CountPosted(d, schedule.s.accountId, startOfMonth(t))
  IN IF a.lastPostedAt # NULL /\ minNext > t
     THEN [blockedReason |-> NONE, rescheduledAt |-> minNext]
     ELSE IF dayPosts >= a.dailyPostLimit
     THEN [blockedReason |-> "Daily quota reached (" \o ToString(a.dailyPostLimit) \o ").",
           rescheduledAt |-> NULL]
     ELSE IF monthPosts >= a.monthlyPostLimit
     THEN [blockedReason |-> "Monthly quota reached (" \o ToString(a.monthlyPostLimit) \o ").",
           rescheduledAt |-> NULL]
     ELSE IF isTooSimilar(schedule.body, recentBodies)
     THEN [blockedReason |-> "Content too similar to recent published posts.",
           rescheduledAt |-> NULL]
     ELSE [blockedReason |-> NONE, rescheduledAt |-> NULL]

----------------------------------------------------------------------------
(* processSchedule.  Its result: the store after it, the outcome it returns  *)
(* ("threw" when it raises), the Platform calls it made, the corpus after    *)
(* it, the access token Publish was given, and the Platform's answer.        *)

Result(d, outcome, calls, recent, token, resp) ==
  [db |-> d, outcome |-> outcome, calls |-> calls, recent |-> recent,
   token |-> token, resp |-> resp]

\* a blockSchedule call that ends processSchedule
BlockedBy(b, calls, recent) ==
  Result(b.db, IF b.threw THEN "threw" ELSE "blocked", calls, recent, NONE, NoResponse)

\* a reschedule that leaves plannedAt as it was
Reschedule_KeepPlannedAt(d, schedule, at, calls, recent, f) ==
  LET upd == [d EXCEPT !.schedules[schedule.id] =
                [@ EXCEPT !.status = "PENDING", !.nextAttemptAt = NULL,
                          !.lastError = "Rescheduled to respect min interval ("
                             \o ToString(schedule.account.minIntervalMinutes) \o "m)."]]
  IN IF f = "txn" THEN Result(d, "threw", calls, recent, NONE, NoResponse)
     ELSE IF f = "log" THEN Result(upd, "threw", calls, recent, NONE, NoResponse)
     ELSE Result(upd, "rescheduled", calls, recent, NONE, NoResponse)

\* lines 308-331: the min-interval reschedule
Reschedule(d, schedule, at, calls, recent, f) ==
  LET upd == [d EXCEPT !.schedules[schedule.id] =
                [@ EXCEPT !.status = "PENDING", !.plannedAt = at, !.nextAttemptAt = NULL,
                          !.lastError = "Rescheduled to respect min interval ("
                             \o ToString(schedule.account.minIntervalMinutes) \o "m)."]]
  IN IF f = "txn" THEN Result(d, "threw", calls, recent, NONE, NoResponse)
     ELSE IF f = "log" THEN Result(upd, "threw", calls, recent, NONE, NoResponse)
     ELSE Result(upd, "rescheduled", calls, recent, NONE, NoResponse)

\* a success settlement that writes no PostMetric row
SuccessTx_NoMetric(d, schedule, pr, attemptNo, t) ==
  [d EXCEPT
     !.schedules[schedule.id] =
        [@ EXCEPT !.status = "POSTED", !.postedAt = t, !.attemptCount = attemptNo,
                  !.lastError = NONE, !.nextAttemptAt = NULL],
     !.accounts[schedule.s.accountId] =
        [@ EXCEPT !.status = "ACTIVE", !.healthMessage = NONE, !.lastPostedAt = t],
     !.attempts = Append(@,
        [scheduleId |-> schedule.id, accountId |-> schedule.s.accountId,
         attemptNo |-> attemptNo, status |-> "SUCCESS",
         requestedAt |-> t, finishedAt |-> t, httpStatus |-> pr.status,
         errorMessage |-> NONE, rateLimitResetAt |-> pr.resetAt]),
     !.snapshots = Append(@, [accountId |-> schedule.s.accountId, resetAt |-> pr.resetAt])]

\* lines 341-413: the success settlement
SuccessTx(d, schedule, pr, attemptNo, t) ==
  [d EXCEPT
     !.schedules[schedule.id] =
        [@ EXCEPT !.status = "POSTED", !.postedAt = t, !.attemptCount = attemptNo,
                  !.lastError = NONE, !.nextAttemptAt = NULL],
     !.accounts[schedule.s.accountId] =
        [@ EXCEPT !.status = "ACTIVE", !.healthMessage = NONE, !.lastPostedAt = t],
     !.attempts = Append(@,
        [scheduleId |-> schedule.id, accountId |-> schedule.s.accountId,
         attemptNo |-> attemptNo, status |-> "SUCCESS",
         requestedAt |-> t, finishedAt |-> t, httpStatus |-> pr.status,
         errorMessage |-> NONE, rateLimitResetAt |-> pr.resetAt]),
     !.snapshots = Append(@, [accountId |-> schedule.s.accountId, resetAt |-> pr.resetAt]),
     !.metrics = Append(@, schedule.id)]

\* a cycle that does not add what it publishes to its corpus
pushRecent_Forgetful(recentBodies, body) == recentBodies

pushRecent(recentBodies, body) == Take(<<body>> \o recentBodies, RecentCap)

\* a settlement whose writes are made one by one: a failing store keeps the
\* schedule update made before the failure
SettleSuccess_OneByOne(d, schedule, pr, attemptNo, t, calls, recent, token, resp, f) ==
  LET metricExists == \E i \in DOMAIN d.metrics : d.metrics[i] = schedule.id
      tx == SuccessTx(d, schedule, pr, attemptNo, t)
  IN IF f = "txn" \/ metricExists
     THEN Result([d EXCEPT !.schedules[schedule.id] = tx.schedules[schedule.id]],
                 "threw", calls, recent, token, resp)
     ELSE IF f = "log" THEN Result(tx, "threw", calls, recent, token, resp)
     ELSE Result(tx, "posted", calls, pushRecent(recent, schedule.body), token, resp)

SettleSuccess(d, schedule, pr, attemptNo, t, calls, recent, token, resp, f) ==
  LET metricExists == \E i \in DOMAIN d.metrics : d.metrics[i] = schedule.id
      tx == SuccessTx(d, schedule, pr, attemptNo, t)
  IN IF f = "txn" \/ metricExists   \* PostMetric_scheduleId_key rolls the transaction back
     THEN Result(d, "threw", calls, recent, token, resp)
     ELSE IF f = "log" THEN Result(tx, "threw", calls, recent, token, resp)
     ELSE Result(tx, "posted", calls, pushRecent(recent, schedule.body), token, resp)

\* variants of the retry decision: 403 not forcing a block, the attempt
\* budget not consulted
shouldForceBlock_401Only(status) == status = 401

shouldForceBlock(status) == status = 401 \/ status = 403

canRetry_NoBudget(status, attemptNo, maxAttempts) == ~shouldForceBlock(status)

canRetry(status, attemptNo, maxAttempts) ==
  ~shouldForceBlock(status) /\ attemptNo < maxAttempts

nextAccountStatus(status, snapshotStatus) ==
  IF status = 429 THEN "RATE_LIMITED"
  ELSE IF status = 401 THEN "TOKEN_EXPIRED"
  ELSE IF status = 403 THEN "SUSPENDED"
  ELSE snapshotStatus

\* a failure settlement that keeps a retry time on the final block
FailureTx_RetryAtKept(d, schedule, pr, attemptNo, t) ==
  LET retry == canRetry(pr.status, attemptNo, schedule.s.maxAttempts)
  IN [d EXCEPT
     !.schedules[schedule.id] =
        [@ EXCEPT !.status = IF retry THEN "FAILED" ELSE "BLOCKED",
                  !.attemptCount = attemptNo,
                  !.nextAttemptAt = computeRetryAt(t, attemptNo, pr.resetAt),
                  !.lastError = pr.errorMessage],
     !.accounts[schedule.s.accountId] =
        [@ EXCEPT !.status = nextAccountStatus(pr.status, schedule.account.status),
                  !.healthMessage = pr.errorMessage],
     !.attempts = Append(@,
        [scheduleId |-> schedule.id, accountId |-> schedule.s.accountId,
         attemptNo |-> attemptNo, status |-> "FAIL",
         requestedAt |-> t, finishedAt |-> t, httpStatus |-> pr.status,
         errorMessage |-> pr.errorMessage, rateLimitResetAt |-> pr.resetAt]),
     !.snapshots = Append(@, [accountId |-> schedule.s.accountId, resetAt |-> pr.resetAt])]

\* lines 415-479: the failure settlement
FailureTx(d, schedule, pr, attemptNo, t) ==
  LET retry == canRetry(pr.status, attemptNo, schedule.s.maxAttempts)
  IN [d EXCEPT
     !.schedules[schedule.id] =
        [@ EXCEPT !.status = IF retry THEN "FAILED" ELSE "BLOCKED",
                  !.attemptCount = attemptNo,
                  !.nextAttemptAt = IF retry THEN computeRetryAt(t, attemptNo, pr.resetAt)
                                    ELSE NULL,
                  !.lastError = pr.errorMessage],
     !.accounts[schedule.s.accountId] =
        [@ EXCEPT !.status = nextAccountStatus(pr.status, schedule.account.status),
                  !.healthMessage = pr.errorMessage],
     !.attempts = Append(@,
        [scheduleId |-> schedule.id, accountId |-> schedule.s.accountId,
         attemptNo |-> attemptNo, status |-> "FAIL",
         requestedAt |-> t, finishedAt |-> t, httpStatus |-> pr.status,
         errorMessage |-> pr.errorMessage, rateLimitResetAt |-> pr.resetAt]),
     !.snapshots = Append(@, [accountId |-> schedule.s.accountId, resetAt |-> pr.resetAt])]

SettleFailure(d, schedule, pr, attemptNo, t, calls, recent, token, resp, f) ==
  LET retry == canRetry(pr.status, attemptNo, schedule.s.maxAttempts)
      tx == FailureTx(d, schedule, pr, attemptNo, t)
  IN IF f = "txn" THEN Result(d, "threw", calls, recent, token, resp)
     ELSE IF f = "log" THEN Result(tx, "threw", calls, recent, token, resp)
     ELSE Result(tx, IF retry THEN "failed" ELSE "blocked", calls, recent, token, resp)

\* lines 300-496: the risk gate, then Publish and its settlement
GuardAndPublish(d, schedule, recent, t, accessToken, calls, resp, f) ==
  LET guard == applyRiskGuards(d, schedule, recent, t)
      attemptNo == schedule.s.attemptCount + 1
      pr == publishPostToX(resp, t)
      pcalls == calls \cup {"publish"}
  IN IF guard.blockedReason # NONE
     THEN BlockedBy(blockSchedule(d, schedule, guard.blockedReason, NONE, t, f),
                    calls, recent)
     ELSE IF guard.rescheduledAt # NULL
     THEN Reschedule(d, schedule, guard.rescheduledAt, calls, recent, f)
     ELSE IF pr.threw
     THEN Result(d, "threw", pcalls, recent, accessToken, resp)
     ELSE IF pr.ok
     THEN SettleSuccess(d, schedule, pr, attemptNo, t, pcalls, recent, accessToken, resp, f)
     ELSE SettleFailure(d, schedule, pr, attemptNo, t, pcalls, recent, accessToken, resp, f)

\* a catch around the refresh flow that blocks without demoting the account
RefreshCatch_NoDemotion(d, schedule, t, calls, recent, f) ==
  BlockedBy(blockSchedule(d, schedule,
                          "Token expired and refresh flow failed unexpectedly.",
                          NONE, t, f),
            calls, recent)

\* lines 283-290: the catch around the refresh flow
RefreshCatch(d, schedule, t, calls, recent, f) ==
  BlockedBy(blockSchedule(d, schedule,
                          "Token expired and refresh flow failed unexpectedly.",
                          "TOKEN_EXPIRED", t, f),
            calls, recent)

\* an account update after a refresh that keeps the old expiry
RefreshedAccount_ExpiryKept(d, schedule, refreshed) ==
  [d EXCEPT !.accounts[schedule.s.accountId] =
     [@ EXCEPT !.accessTokenEncrypted = encryptSecret(refreshed.accessToken),
               !.refreshTokenEncrypted =
                   IF refreshed.refreshToken # NONE
                   THEN encryptSecret(refreshed.refreshToken)
                   ELSE schedule.account.refreshTokenEncrypted,
               !.status = "ACTIVE",
               !.healthMessage = NONE]]

\* lines 268-281: the account row after a successful refresh
RefreshedAccount(d, schedule, refreshed) ==
  [d EXCEPT !.accounts[schedule.s.accountId] =
     [@ EXCEPT !.accessTokenEncrypted = encryptSecret(refreshed.accessToken),
               !.refreshTokenEncrypted =
                   IF refreshed.refreshToken # NONE
                   THEN encryptSecret(refreshed.refreshToken)
                   ELSE schedule.account.refreshTokenEncrypted,
               !.tokenExpiresAt = refreshed.expiresAt,
               !.status = "ACTIVE",
               !.healthMessage = NONE]]

\* f1, f2: the store faults striking the first and the second store write of
\* the call
processSchedule(d, schedule, recent, t, rr, resp, f1, f2) ==
  LET a == schedule.account
      px == resolveProxyConfig(schedule)
      refreshed == refreshAccessTokenOnX(decryptSecret(a.refreshTokenEncrypted), rr, t)
  IN IF px.error # NONE
     THEN BlockedBy(blockSchedule(d, schedule, px.error, NONE, t, f1), {}, recent)
     ELSE IF a.tokenExpiresAt # NULL /\ a.tokenExpiresAt <= t
     THEN IF a.refreshTokenEncrypted = NoSecret
          THEN BlockedBy(blockSchedule(d, schedule,
                                       "Token expired and refresh token is missing.",
                                       "TOKEN_EXPIRED", t, f1), {}, recent)
          ELSE IF ~DecryptOk(a.refreshTokenEncrypted)
          THEN RefreshCatch(d, schedule, t, {}, recent, f1)
          ELSE IF refreshed.threw
          THEN RefreshCatch(d, schedule, t, {"refresh"}, recent, f1)
          ELSE IF ~refreshed.ok
          THEN LET b == blockSchedule(d, schedule,
                                      "Token refresh failed: " \o refreshed.errorMessage,
                                      "TOKEN_EXPIRED", t, f1)
               IN IF b.threw
                  THEN RefreshCatch(b.db, schedule, t, {"refresh"}, recent, f2)
                  ELSE BlockedBy(b, {"refresh"}, recent)
          ELSE IF f1 = "txn"      \* db.account.update fails inside the try
          THEN RefreshCatch(d, schedule, t, {"refresh"}, recent, f2)
          ELSE GuardAndPublish(RefreshedAccount(d, schedule, refreshed), schedule,
                               recent, t, refreshed.accessToken, {"refresh"}, resp, f2)
     ELSE IF ~DecryptOk(a.accessTokenEncrypted)
     THEN BlockedBy(blockSchedule(d, schedule,
                                  "Cannot decrypt access token. Fix TOKEN_ENCRYPTION_KEY.",
                                  NONE, t, f1), {}, recent)
     ELSE GuardAndPublish(d, schedule, recent, t, decryptSecret(a.accessTokenEncrypted),
                          {}, resp, f1)

----------------------------------------------------------------------------
(* runPublisherCycle: selection *)

\* a selection that never takes a FAILED row
IsDue_PendingOnly(sc, t) == sc.status = "PENDING" /\ sc.plannedAt <= t

\* a selection that takes PENDING rows whatever their plannedAt
IsDue_AnyPending(sc, t) ==
  \/ sc.status = "PENDING"
  \/ sc.status = "FAILED" /\ sc.nextAttemptAt # NULL /\ sc.nextAttemptAt <= t

IsDue(sc, t) ==
  \/ sc.status = "PENDING" /\ sc.plannedAt <= t
  \/ sc.status = "FAILED" /\ sc.nextAttemptAt # NULL /\ sc.nextAttemptAt <= t

\* an ordering that takes a FAILED row by its nextAttemptAt
DueBefore_ByNextAttempt(d, i, j) ==
  LET x == d.schedules[i]
      y == d.schedules[j]
      at(r) == IF r.status = "FAILED" THEN r.nextAttemptAt ELSE r.plannedAt
  IN \/ x.priority < y.priority
     \/ x.priority = y.priority /\ at(x) < at(y)
     \/ x.priority = y.priority /\ at(x) = at(y) /\ i <= j

\* orderBy priority asc, plannedAt asc (rows that tie come in id order)
DueBefore(d, i, j) ==
  LET x == d.schedules[i]
      y == d.schedules[j]
  IN \/ x.priority < y.priority
     \/ x.priority = y.priority /\ x.plannedAt < y.plannedAt
     \/ x.priority = y.priority /\ x.plannedAt = y.plannedAt /\ i <= j

RECURSIVE OrderDue(_, _)
OrderDue(d, S) ==
  IF S = {} THEN <<>>
  ELSE LET m == CHOOSE i \in S : \A j \in S : DueBefore(d, i, j)
       IN <<m>> \o OrderDue(d, S \ {m})

\* a selected row with its account and variant joined (include: account, variant)
Joined(d, i) ==
  [id |-> i, s |-> d.schedules[i], account |-> d.accounts[d.schedules[i].accountId],
   body |-> d.variants[d.schedules[i].contentVariantId].body]

findDueSchedules(d, t, limit) ==
  LET ids == Take(OrderDue(d, {i \in DOMAIN d.schedules : IsDue(d.schedules[i], t)}), limit)
  IN [k \in DOMAIN ids |-> Joined(d, ids[k])]

\* orderBy postedAt desc (rows that tie come in id order)
RecentBefore(d, i, j) ==
  \/ d.schedules[i].postedAt > d.schedules[j].postedAt
  \/ d.schedules[i].postedAt = d.schedules[j].postedAt /\ i <= j

RECURSIVE OrderRecent(_, _)
OrderRecent(d, S) ==
  IF S = {} THEN <<>>
  ELSE LET m == CHOOSE i \in S : \A j \in S : RecentBefore(d, i, j)
       IN <<m>> \o OrderRecent(d, S \ {m})

findRecentBodies(d, t) ==
  LET ids == Take(OrderRecent(d, {i \in DOMAIN d.schedules :
                      /\ d.schedules[i].status = "POSTED"
                      /\ d.schedules[i].postedAt # NULL
                      /\ d.schedules[i].postedAt >= t - RecentWindowMinutes}), RecentCap)
  IN [k \in DOMAIN ids |-> d.variants[d.schedules[ids[k]].contentVariantId].body]

ZeroSummary(n) ==
  [scanned |-> n, attempted |-> 0, posted |-> 0, failed |-> 0, blocked |-> 0,
   rescheduled |-> 0]

\* the index of the next row of due, from k on, whose account was not seen; 0 if none
RECURSIVE NextUnseen(_, _, _)
NextUnseen(due, k, seen) ==
  IF k > Len(due) THEN 0
  ELSE IF due[k].s.accountId \in seen THEN NextUnseen(due, k + 1, seen)
  ELSE k

\* a loop that does not skip the rows of a seen account
accountSeenSkip_NoSkip(due, k, seen) == IF k > Len(due) THEN 0 ELSE k

accountSeenSkip(due, k, seen) == NextUnseen(due, k, seen)

\* processed, rowsAtStart and faulted record the invocation's history: the
\* schedules handed to processSchedule, the length of the attempt table when
\* the invocation began, and whether a store write failed during it
IdleCycle ==
  [phase |-> "idle", due |-> <<>>, idx |-> 0, seen |-> {}, summary |-> ZeroSummary(0),
   recentBodies |-> <<>>, processed |-> <<>>, rowsAtStart |-> 0, faulted |-> FALSE,
   owed |-> {}]

\* last: the most recent result a handler of the cycle produced, visible
\* until the next action: a processSchedule call (its schedule, the rows as
\* they were before it, the Platform calls it made, its outcome) or the
\* return of runPublisherCycle (the summary and the rows it had selected)
NoLast ==
  [kind |-> "none", sid |-> 0, accountId |-> NONE, outcome |-> "none", calls |-> {},
   resp |-> NoResponse, token |-> NONE, storeFault |-> FALSE, before |-> <<>>,
   summary |-> ZeroSummary(0), due |-> <<>>,
   req |-> <<>>, accs |-> <<>>, http |-> 0, created |-> 0, again |-> FALSE,
   limit |-> 0, owed |-> {}, attempted |-> {},
   refresh |-> [kind |-> "none", rotate |-> FALSE, expiresIn |-> NULL],
   fault |-> "none"]

----------------------------------------------------------------------------
(* Initial state: two accounts, the contents with their base variant, no    *)
(* schedule yet                                                             *)

\* two clients of the dispatch route; each has at most one request in flight
Clients == {1, 2}

IdleDispatch ==
  [pc |-> "idle", req |-> <<>>, accs |-> <<>>, plannedAt |-> NULL, index |-> 0,
   created |-> 0,
   aborted |-> FALSE, rows |-> <<>>, variants |-> <<>>, http |-> 0]

NoDispatches == [p \in Clients |-> IdleDispatch]

\* no library function under evaluation
NoCalc == [stage |-> "none"]

EmptyStore(p1, p2) ==
  [ accounts |-> [a \in Accounts |->
                    IF a = "a1" THEN AccountOfProfile(a, p1) ELSE AccountOfProfile(a, p2)],
    variants |-> << [contentId |-> "c1", accountId |-> NONE, body |-> ContentBody("c1")] >>,
    schedules |-> <<>>,
    attempts |-> <<>>,
    metrics |-> <<>>,
    snapshots |-> <<>> ]

Init ==
  /\ now = 0
  /\ \E p \in AccountProfiles : db = EmptyStore(p[1], p[2])
  /\ cyc = IdleCycle
  /\ last = NoLast
  /\ disp = NoDispatches
  /\ calc = NoCalc
  /\ rival = IdleCycle

----------------------------------------------------------------------------
(* Actions *)

Tick ==
  /\ \E t \in Clock : t > now /\ now' = t
  /\ last' = NoLast
  /\ UNCHANGED <<db, cyc, disp, calc, rival>>

NewSchedule(accountId, contentId, variantId, plannedAt, key, priority, maxAttempts) ==
  [accountId |-> accountId, contentId |-> contentId, contentVariantId |-> variantId,
   plannedAt |-> plannedAt, status |-> "PENDING", idempotencyKey |-> key,
   priority |-> priority, attemptCount |-> 0, maxAttempts |-> maxAttempts,
   nextAttemptAt |-> NULL, postedAt |-> NULL, lastError |-> NONE]

\* a store without the unique index on idempotencyKey
KeyTaken_NoIndex(d, key) == FALSE

KeyTaken(d, key) == \E i \in DOMAIN d.schedules : d.schedules[i].idempotencyKey = key

Clamp(lo, hi, x) == Max2(lo, Min2(hi, x))

\* POST /api/schedules
scheduleRouteKey(contentId, accountId, variantId, plannedAt) ==
  contentId \o ":" \o accountId \o ":" \o ToString(variantId) \o ":" \o ToString(plannedAt)

CreateSchedule ==
  /\ Len(db.schedules) < MaxSchedules
  /\ \E accountId \in Accounts, variantId \in DOMAIN db.variants, in \in ScheduleInputs :
       LET contentId == db.variants[variantId].contentId
           key == scheduleRouteKey(contentId, accountId, variantId, in.plannedAt)
           row == NewSchedule(accountId, contentId, variantId, in.plannedAt, key,
                              Clamp(1, 1000, in.priority), Clamp(1, 8, in.maxAttempts))
       IN /\ ~KeyTaken(db, key)
          /\ db' = [db EXCEPT !.schedules = Append(@, row)]
  /\ last' = NoLast
  /\ UNCHANGED <<now, cyc, disp, calc, rival>>

\* POST /api/dispatch
buildIdempotencyKey(contentId, accountId, plannedAt) ==
  contentId \o ":" \o accountId \o ":" \o ToString(plannedAt)

FindVariant(d, contentId, accountId) ==
  LET hits == {v \in DOMAIN d.variants :
                 d.variants[v].contentId = contentId /\ d.variants[v].accountId = accountId}
  IN IF hits = {} THEN 0 ELSE CHOOSE v \in hits : \A w \in hits : v <= w

\* The store is PostgreSQL: a statement that fails inside a transaction (here
\* the unique violation P2002 on Schedule.idempotencyKey) aborts the
\* transaction, so every later statement of it fails and nothing is committed.
\* r is the transaction so far: its view of the store, the rows it created,
\* and whether it has been aborted.
\* the loop over the target accounts accs (in the order the query returned
\* them), from position index
\* one iteration of the loop: the account at position index
DispatchStep(r, accs, index, contentId, plannedAt, staggerMinutes, priority) ==
  LET d == r.db
      accountId == accs[index + 1]
      found == FindVariant(d, contentId, accountId)
      variantBody == buildVariantBody(ContentBody(contentId), d.accounts[accountId],
                                      index + 1)
      d1 == IF found # 0 THEN d
            ELSE [d EXCEPT !.variants = Append(@,
                    [contentId |-> contentId, accountId |-> accountId,
                     body |-> variantBody])]
      variantId == IF found # 0 THEN found ELSE Len(d1.variants)
      rowPlannedAt == addMinutes(plannedAt, staggerMinutes * index)
      key == buildIdempotencyKey(contentId, accountId, rowPlannedAt)
      row == NewSchedule(accountId, contentId, variantId, rowPlannedAt, key,
                         priority, DefaultMaxAttempts)
  IN IF KeyTaken(d1, key)
     THEN [r EXCEPT !.db = d1, !.aborted = TRUE]    \* P2002: continue
     ELSE [db |-> [d1 EXCEPT !.schedules = Append(@, row)],
           created |-> r.created + 1, aborted |-> FALSE]

RECURSIVE DispatchLoop(_, _, _, _, _, _, _)
DispatchLoop(r, accs, index, contentId, plannedAt, staggerMinutes, priority) ==
  IF index >= Len(accs) \/ r.aborted THEN r
  ELSE DispatchLoop(DispatchStep(r, accs, index, contentId, plannedAt, staggerMinutes,
                                 priority),
                    accs, index + 1, contentId, plannedAt, staggerMinutes, priority)

\* lines 111-214: the transaction and the response.  In an aborted
\* transaction the next statement (the next findFirst, or the activity-log
\* insert) throws, the transaction rolls back and the route answers 500.
dispatchTx(d, accs, contentId, plannedAt, staggerMinutes, priority) ==
  LET r == DispatchLoop([db |-> d, created |-> 0, aborted |-> FALSE], accs, 0,
                        contentId, plannedAt, staggerMinutes, priority)
  IN IF r.aborted THEN [db |-> d, http |-> 500, created |-> 0]
     ELSE [db |-> r.db, http |-> 200, created |-> r.created]

\* tx.account.findMany has no orderBy: the target accounts come back in any
\* order
AccountOrders(S) ==
  {q \in UNION {[1 .. n -> S] : n \in {Cardinality(S)}} :
     \A i, j \in DOMAIN q : i # j => q[i] # q[j]}

Dispatch ==
  /\ \E contentId \in Contents, targets \in (SUBSET Accounts) \ {{}},
        scheduleAt \in DispatchTimes, staggerMinutes \in Staggers :
       \E accs \in AccountOrders(targets) :
         \E r \in {dispatchTx(db, accs, contentId,
                              IF scheduleAt = NULL THEN now ELSE scheduleAt,
                              Clamp(0, 120, staggerMinutes),
                              Clamp(1, 1000, DefaultPriority))} :
            /\ Len(r.db.schedules) <= MaxSchedules
            /\ db' = r.db
  /\ last' = NoLast
  /\ UNCHANGED <<now, cyc, disp, calc, rival>>

\* POST /api/dispatch with any payload; last keeps the request, the order in
\* which the accounts came back, the response, and whether the request repeats
\* the successful one just before it
DispatchRequest ==
  /\ cyc.phase = "idle"
  /\ \E contentId \in Contents, targets \in (SUBSET Accounts) \ {{}},
        scheduleAt \in DispatchInstants, stagger \in DispatchStaggers :
       \E accs \in AccountOrders(targets) :
         \E r \in {dispatchTx(db, accs, contentId,
                              IF scheduleAt = NULL THEN now ELSE scheduleAt,
                              Clamp(0, 120, IF stagger = NULL THEN DefaultStagger
                                            ELSE stagger),
                              Clamp(1, 1000, DefaultPriority))} :
           LET req == [contentId |-> contentId, accountIds |-> targets,
                       scheduleAt |-> scheduleAt, staggerMinutes |-> stagger]
           IN /\ Len(r.db.schedules) <= MaxDispatchRows
              /\ db' = r.db
              /\ last' = [NoLast EXCEPT
                            !.kind = "dispatched", !.req = req, !.accs = accs,
                            !.http = r.http, !.created = r.created,
                            !.again = (/\ last.kind = "dispatched" /\ last.http = 200
                                       /\ last.req = req),
                            !.before = <<[schedules |-> db.schedules,
                                          variants |-> db.variants]>>]
  /\ UNCHANGED <<now, cyc, disp, calc, rival>>

----------------------------------------------------------------------------
(* POST /api/dispatch, statement by statement, for requests in flight at    *)
(* the same time.  The transactions run at READ COMMITTED: a statement sees *)
(* the committed rows and the rows of its own transaction; an INSERT whose  *)
(* idempotencyKey another open transaction has inserted waits for that      *)
(* transaction to end.                                                      *)

\* a row of an open transaction names a variant the transaction created by
\* its position among them
OwnRef(k) == 0 - (k + 1)

ResolveRows(rows, base) ==
  [i \in DOMAIN rows |->
     IF rows[i].contentVariantId < NULL
     THEN [rows[i] EXCEPT !.contentVariantId = base + (0 - @) - 1]
     ELSE rows[i]]

UnresolveRows(rows, base) ==
  [i \in DOMAIN rows |->
     IF rows[i].contentVariantId > base
     THEN [rows[i] EXCEPT !.contentVariantId = OwnRef(@ - base)]
     ELSE rows[i]]

\* the store as the open transaction t sees it
TxView(t) ==
  [db EXCEPT !.variants = @ \o t.variants,
             !.schedules = @ \o ResolveRows(t.rows, Len(db.variants))]

\* the key of the INSERT the transaction makes next
NextKey(t) ==
  buildIdempotencyKey(t.req.contentId, t.accs[t.index + 1],
                      addMinutes(t.plannedAt,
                                 Clamp(0, 120, t.req.staggerMinutes) * t.index))

HoldsKey(t, key) ==
  t.pc = "loop" /\ \E i \in DOMAIN t.rows : t.rows[i].idempotencyKey = key

\* the next INSERT of p waits on a row of another open transaction
Waiting(p) ==
  /\ disp[p].pc = "loop" /\ ~disp[p].aborted /\ disp[p].index < Len(disp[p].accs)
  /\ \E q \in Clients \ {p} : HoldsKey(disp[q], NextKey(disp[p]))

\* lines 35-123: the payload is read and the transaction opened; a request in
\* flight together with another carries the same parameters
BeginDispatch(p) ==
  /\ cyc.phase = "idle"
  /\ disp[p].pc = "idle"
  /\ \E contentId \in Contents, targets \in (SUBSET Accounts) \ {{}},
        scheduleAt \in DispatchTimes, staggerMinutes \in Staggers :
       LET req == [contentId |-> contentId, accountIds |-> targets,
                   scheduleAt |-> scheduleAt, staggerMinutes |-> staggerMinutes]
       IN /\ \A q \in Clients \ {p} : disp[q].pc # "idle" => disp[q].req = req
          /\ \E accs \in AccountOrders(targets) :
               disp' = [disp EXCEPT ![p] =
                          [IdleDispatch EXCEPT !.pc = "loop", !.req = req, !.accs = accs,
                                               !.plannedAt = scheduleAt]]
  /\ last' = NoLast
  /\ UNCHANGED <<now, db, cyc, calc, rival>>

\* lines 133-184: one iteration of the loop
StepDispatch(p) ==
  LET t == disp[p]
  IN /\ t.pc = "loop" /\ ~t.aborted /\ t.index < Len(t.accs)
     /\ ~Waiting(p)
     /\ \E r \in {DispatchStep([db |-> TxView(t), created |-> t.created,
                                 aborted |-> FALSE],
                                t.accs, t.index, t.req.contentId, t.plannedAt,
                                Clamp(0, 120, t.req.staggerMinutes),
                                Clamp(1, 1000, DefaultPriority))} :
          disp' = [disp EXCEPT ![p] =
                     [t EXCEPT !.index = @ + 1, !.created = r.created,
                               !.aborted = r.aborted,
                               !.variants = SubSeq(r.db.variants, Len(db.variants) + 1,
                                                   Len(r.db.variants)),
                               !.rows = UnresolveRows(
                                          SubSeq(r.db.schedules, Len(db.schedules) + 1,
                                                 Len(r.db.schedules)),
                                          Len(db.variants))]]
     /\ last' = NoLast
     /\ UNCHANGED <<now, db, cyc, calc, rival>>

\* lines 186-207: the activity-log entry, the commit and the 200 response
CommitDispatch(p) ==
  LET t == disp[p]
  IN /\ t.pc = "loop" /\ ~t.aborted /\ t.index = Len(t.accs)
     /\ db' = TxView(t)
     /\ disp' = [disp EXCEPT ![p] =
                   [t EXCEPT !.pc = "done", !.http = 200, !.rows = <<>>,
                             !.variants = <<>>]]
     /\ last' = NoLast
     /\ UNCHANGED <<now, cyc, calc, rival>>

RolledBack(t) ==
  [t EXCEPT !.pc = "done", !.http = 500, !.created = 0, !.rows = <<>>, !.variants = <<>>]

\* the statement after a failed INSERT is rejected: the callback throws, the
\* transaction rolls back, the route answers 500 (lines 208-213)
RollbackDispatch(p) ==
  /\ disp[p].pc = "loop" /\ disp[p].aborted
  /\ disp' = [disp EXCEPT ![p] = RolledBack(@)]
  /\ last' = NoLast
  /\ UNCHANGED <<now, db, cyc, calc, rival>>

\* every open transaction waits on another: the store ends one of them with a
\* deadlock error, which the loop does not catch
DeadlockDispatch ==
  /\ \A p \in Clients : Waiting(p)
  /\ \E victim \in Clients : disp' = [disp EXCEPT ![victim] = RolledBack(@)]
  /\ last' = NoLast
  /\ UNCHANGED <<now, db, cyc, calc, rival>>

\* the accounts that hold a due schedule
DueAccounts(d, t) ==
  {d.schedules[i].accountId : i \in {j \in DOMAIN d.schedules : IsDue(d.schedules[j], t)}}

\* lines 498-559: the invocation after its two queries
BeginCycle(d, t, limit) ==
  LET due == findDueSchedules(d, t, limit)
  IN [phase |-> "running", due |-> due, idx |-> 1, seen |-> {},
      summary |-> ZeroSummary(Len(due)),
      recentBodies |-> findRecentBodies(d, t),
      processed |-> <<>>, rowsAtStart |-> Len(d.attempts),
      faulted |-> FALSE,
      owed |-> IF Cardinality(DueAccounts(d, t)) <= limit
               THEN DueAccounts(d, t) ELSE {}]

\* the start of runPublisherCycle(limit).  owed keeps, for the invocation,
\* the accounts with a due schedule when they number at most limit; last
\* keeps the limit
StartCycle ==
  /\ cyc.phase = "idle"
  /\ Len(db.attempts) < MaxAttemptRows
  /\ \E limit \in CycleLimits :
       /\ cyc' = BeginCycle(db, now, limit)
       /\ last' = [NoLast EXCEPT !.kind = "started", !.limit = limit]
  /\ UNCHANGED <<now, db, disp, calc, rival>>

\* a tally that leaves the rescheduled outcome out
Tally_NoRescheduled(summary, outcome) ==
  [summary EXCEPT !.attempted = @ + 1,
                  !.posted = IF outcome = "posted" THEN @ + 1 ELSE @,
                  !.failed = IF outcome = "failed" THEN @ + 1 ELSE @,
                  !.blocked = IF outcome = "blocked" THEN @ + 1 ELSE @]

Tally(summary, outcome) ==
  [summary EXCEPT !.attempted = @ + 1,
                  !.posted = IF outcome = "posted" THEN @ + 1 ELSE @,
                  !.failed = IF outcome = "failed" THEN @ + 1 ELSE @,
                  !.blocked = IF outcome = "blocked" THEN @ + 1 ELSE @,
                  !.rescheduled = IF outcome = "rescheduled" THEN @ + 1 ELSE @]

\* one iteration of the for loop that reaches processSchedule (the iterations
\* that `continue` on a seen account are run through with it)
ProcessNext ==
  /\ cyc.phase = "running"
  /\ cyc.idx <= Len(cyc.due)
  /\ LET schedule == cyc.due[cyc.idx]
         a == schedule.account
         refreshPath == /\ resolveProxyConfig(schedule).error = NONE
                        /\ a.tokenExpiresAt # NULL /\ a.tokenExpiresAt <= now
                        /\ a.refreshTokenEncrypted # NoSecret
         refreshCall == refreshPath /\ DecryptOk(a.refreshTokenEncrypted)
     IN \E rr \in (IF refreshCall THEN RefreshResponses ELSE {NoRefresh}),
           f1 \in StoreFaults,
           f2 \in (IF refreshPath THEN StoreFaults ELSE {"none"}) :
          \* the Platform answers Publish only when the call is reached
          \E resp \in (IF "publish" \in processSchedule(db, schedule, cyc.recentBodies,
                                             now, rr, NetworkError, f1, f2).calls
                        THEN PlatformResponses ELSE {NoResponse}) :
            \E r \in {processSchedule(db, schedule, cyc.recentBodies, now, rr, resp,
                                      f1, f2)} :
               LET seen == cyc.seen \cup {schedule.s.accountId}
                   nxt == accountSeenSkip(cyc.due, cyc.idx + 1, seen)
               IN /\ db' = r.db
                  /\ cyc' =
                       IF r.outcome = "threw" THEN IdleCycle
                       ELSE [cyc EXCEPT !.idx = IF nxt = 0 THEN Len(cyc.due) + 1 ELSE nxt,
                                        !.seen = seen,
                                        !.summary = Tally(@, r.outcome),
                                        !.processed = Append(@,
                                            [id |-> schedule.id,
                                             accountId |-> schedule.s.accountId]),
                                        !.faulted = @ \/ f1 # "none" \/ f2 # "none",
                                        !.recentBodies = r.recent]
                  /\ last' = [NoLast EXCEPT
                                !.kind = "processed", !.sid = schedule.id,
                                !.accountId = schedule.s.accountId,
                                !.outcome = r.outcome, !.calls = r.calls, !.resp = r.resp,
                                !.token = r.token,
                                !.refresh = IF refreshCall THEN rr ELSE NoLast.refresh,
                                !.storeFault = (f1 # "none" \/ f2 # "none"),
                                !.before = <<[s |-> db.schedules[schedule.id],
                                              account |-> db.accounts[schedule.s.accountId],
                                              attempts |-> db.attempts,
                                              snapshots |-> db.snapshots,
                                              metrics |-> db.metrics]>>]
  /\ UNCHANGED <<now, disp, calc, rival>>

\* the loop is over: runPublisherCycle returns its summary
CycleReturn ==
  /\ cyc.phase = "running"
  /\ cyc.idx > Len(cyc.due)
  /\ cyc' = IdleCycle
  /\ last' = [NoLast EXCEPT !.kind = "returned", !.summary = cyc.summary,
                            !.owed = cyc.owed,
                            !.attempted = {cyc.processed[k].accountId :
                                             k \in DOMAIN cyc.processed},
                            !.due = [k \in DOMAIN cyc.due |->
                                       [id |-> cyc.due[k].id,
                                        accountId |-> cyc.due[k].s.accountId]]]
  /\ UNCHANGED <<now, db, disp, calc, rival>>

Next ==
  \/ Tick
  \/ CreateSchedule
  \/ Dispatch
  \/ StartCycle
  \/ ProcessNext
  \/ CycleReturn

Spec == Init /\ [][Next]_vars

\* the dispatch route alone, over its whole payload
NextDispatch ==
  \/ Tick
  \/ DispatchRequest

\* the dispatch route reads of an account its id, username and language only
InitDispatch ==
  /\ now = 0
  /\ db = EmptyStore("plain", "plain")
  /\ cyc = IdleCycle
  /\ last = NoLast
  /\ disp = NoDispatches
  /\ calc = NoCalc
  /\ rival = IdleCycle

SpecDispatch == InitDispatch /\ [][NextDispatch]_vars

----------------------------------------------------------------------------
(* encryptSecret / decryptSecret on the text they exchange.  A string is a  *)
(* sequence of code points, a Buffer a sequence of bytes, a payload a       *)
(* sequence of characters.                                                  *)

RECURSIVE Flatten(_)
Flatten(ss) == IF ss = <<>> THEN <<>> ELSE Head(ss) \o Flatten(Tail(ss))

\* Buffer.from(value, "utf8") for code points below 2048
utf8Encode(cps) ==
  Flatten([i \in DOMAIN cps |->
             IF cps[i] < 128 THEN <<cps[i]>>
             ELSE <<192 + (cps[i] \div 64), 128 + (cps[i] % 64)>>])

\* buffer.toString("utf8"): a malformed sequence decodes to U+FFFD
RECURSIVE utf8Decode(_)
utf8Decode(bytes) ==
  IF bytes = <<>> THEN <<>>
  ELSE IF bytes[1] < 128 THEN <<bytes[1]>> \o utf8Decode(Tail(bytes))
  ELSE IF /\ bytes[1] \in 194 .. 223 /\ Len(bytes) >= 2 /\ bytes[2] \in 128 .. 191
  THEN <<(bytes[1] - 192) * 64 + (bytes[2] - 128)>> \o utf8Decode(Tail(Tail(bytes)))
  ELSE <<65533>> \o utf8Decode(Tail(bytes))

Base64Alphabet ==
  << "A", "B", "C", "D", "E", "F", "G", "H", "I", "J", "K", "L", "M", "N", "O", "P",
     "Q", "R", "S", "T", "U", "V", "W", "X", "Y", "Z", "a", "b", "c", "d", "e", "f",
     "g", "h", "i", "j", "k", "l", "m", "n", "o", "p", "q", "r", "s", "t", "u", "v",
     "w", "x", "y", "z", "0", "1", "2", "3", "4", "5", "6", "7", "8", "9", "+", "/" >>

Base64Char(v) == Base64Alphabet[v + 1]

\* buffer.toString("base64")
RECURSIVE toBase64(_)
toBase64(b) ==
  IF Len(b) = 0 THEN <<>>
  ELSE IF Len(b) = 1
  THEN <<Base64Char(b[1] \div 4), Base64Char((b[1] % 4) * 16), "=", "=">>
  ELSE IF Len(b) = 2
  THEN <<Base64Char(b[1] \div 4), Base64Char((b[1] % 4) * 16 + (b[2] \div 16)),
         Base64Char((b[2] % 16) * 4), "=">>
  ELSE <<Base64Char(b[1] \div 4), Base64Char((b[1] % 4) * 16 + (b[2] \div 16)),
         Base64Char((b[2] % 16) * 4 + (b[3] \div 64)), Base64Char(b[3] % 64)>>
       \o toBase64(SubSeq(b, 4, Len(b)))

\* the value of a character for Buffer.from(text, "base64"), which also takes
\* the URL-safe alphabet; -1 for a character it passes over
unbase64(c) ==
  IF c = "-" THEN 62
  ELSE IF c = "_" THEN 63
  ELSE IF \E v \in 0 .. 63 : Base64Char(v) = c
  THEN CHOOSE v \in 0 .. 63 : Base64Char(v) = c
  ELSE 0 - 1

RECURSIVE Sextets(_)
Sextets(text) ==
  IF text = <<>> THEN <<>>
  ELSE IF unbase64(Head(text)) < 0 THEN Sextets(Tail(text))
  ELSE <<unbase64(Head(text))>> \o Sextets(Tail(text))

RECURSIVE SextetsToBytes(_)
SextetsToBytes(v) ==
  IF Len(v) < 2 THEN <<>>
  ELSE IF Len(v) = 2 THEN <<v[1] * 4 + (v[2] \div 16)>>
  ELSE IF Len(v) = 3
  THEN <<v[1] * 4 + (v[2] \div 16), (v[2] % 16) * 16 + (v[3] \div 4)>>
  ELSE <<v[1] * 4 + (v[2] \div 16), (v[2] % 16) * 16 + (v[3] \div 4),
         (v[3] % 4) * 64 + v[4]>> \o SextetsToBytes(SubSeq(v, 5, Len(v)))

\* Buffer.from(text, "base64")
fromBase64(text) == SextetsToBytes(Sextets(text))

IV_LENGTH == 12
AuthTagLength == 16

\* the 32 bytes TOKEN_ENCRYPTION_KEY resolves to
KeyByte(j) == (37 * j + 11) % 256

RECURSIVE SumSeq(_)
SumSeq(q) == IF q = <<>> THEN 0 ELSE Head(q) + SumSeq(Tail(q))

\* aes-256-gcm, reduced to what the two functions rely on: a key stream
\* that depends on key, iv and position, and a tag in which every byte of
\* iv and ciphertext counts
KeyStream(iv, i) == (KeyByte(i % 32) + SumSeq(iv) + 7 * i) % 256

gcmEncrypt(iv, plain) == [i \in DOMAIN plain |-> (plain[i] + KeyStream(iv, i)) % 256]

gcmDecrypt(iv, cipher) ==
  [i \in DOMAIN cipher |-> (cipher[i] + 256 - KeyStream(iv, i)) % 256]

gcmTag(iv, cipher) ==
  [j \in 1 .. AuthTagLength |->
     (KeyByte(j) + 5 * Len(iv) + 3 * Len(cipher)
        + SumSeq([k \in DOMAIN iv |-> (j + k) * iv[k]])
        + SumSeq([k \in DOMAIN cipher |-> (j + k + 1) * cipher[k]])) % 256]

\* text.split(".")
RECURSIVE split(_)
split(text) ==
  IF \A i \in DOMAIN text : text[i] # "." THEN <<text>>
  ELSE LET d == CHOOSE i \in DOMAIN text :
                  text[i] = "." /\ \A j \in 1 .. i - 1 : text[j] # "."
       IN <<SubSeq(text, 1, d - 1)>> \o split(SubSeq(text, d + 1, Len(text)))

\* lines 36-43, for the iv randomBytes has drawn
encryptSecretText(value, iv) ==
  LET encrypted == gcmEncrypt(iv, utf8Encode(value))
      authTag == gcmTag(iv, encrypted)
  IN toBase64(iv) \o <<".">> \o toBase64(authTag) \o <<".">> \o toBase64(encrypted)

Thrown == [ok |-> FALSE, value |-> <<>>]

\* lines 45-58; a destructured element the split does not supply is
\* undefined, and undefined and "" are both falsy
decryptSecretText(payload) ==
  LET parts == split(payload)
      part(k) == IF k <= Len(parts) THEN parts[k] ELSE <<>>
      iv == fromBase64(part(1))
      authTag == fromBase64(part(2))
      encrypted == fromBase64(part(3))
  IN IF part(1) = <<>> \/ part(2) = <<>> \/ part(3) = <<>> THEN Thrown
     ELSE IF iv = <<>> THEN Thrown
     ELSE IF Len(authTag) # AuthTagLength THEN Thrown
     ELSE IF authTag # gcmTag(iv, encrypted) THEN Thrown
     ELSE [ok |-> TRUE, value |-> utf8Decode(gcmDecrypt(iv, encrypted))]

MaxSecretLen == 2

\* the strings sealed: "", "a", "\u00e9", ... up to MaxSecretLen code points
SecretValues == UNION {[1 .. n -> {97, 233}] : n \in 0 .. MaxSecretLen}

\* the ivs randomBytes(IV_LENGTH) draws
IVs == { [k \in 1 .. IV_LENGTH |-> (17 * k + 3) % 256],
         [k \in 1 .. IV_LENGTH |-> (251 * k + 190) % 256] }

InitCrypto ==
  /\ now = 0
  /\ db = EmptyStore("plain", "plain")
  /\ cyc = IdleCycle
  /\ last = NoLast
  /\ disp = NoDispatches
  /\ calc \in {[stage |-> "input", value |-> x, sealed |-> <<>>, payload |-> <<>>,
                 result |-> Thrown] : x \in SecretValues}
  /\ rival = IdleCycle

Seal ==
  /\ calc.stage = "input"
  /\ \E iv \in IVs :
       \E text \in {encryptSecretText(calc.value, iv)} :
         calc' = [calc EXCEPT !.stage = "sealed", !.sealed = text, !.payload = text]
  /\ UNCHANGED <<now, db, cyc, last, disp, rival>>

\* a stored payload altered in one place: a character replaced by the next
\* of the alphabet or by its URL-safe form, the padding of a segment taken
\* off, a segment emptied, or the last segment cut off with its dot
Alterations(text) ==
  LET n == Len(text)
      Put(i, c) == [text EXCEPT ![i] = c]
      lastDot == CHOOSE i \in DOMAIN text : text[i] = "." /\ \A j \in i + 1 .. n : text[j] # "."
      firstDot == CHOOSE i \in DOMAIN text : text[i] = "." /\ \A j \in 1 .. i - 1 : text[j] # "."
  IN {Put(i, Base64Char((unbase64(text[i]) + 1) % 64)) :
        i \in {k \in DOMAIN text : unbase64(text[k]) >= 0}}
     \cup {Put(i, "-") : i \in {k \in DOMAIN text : text[k] = "+"}}
     \cup {Put(i, "_") : i \in {k \in DOMAIN text : text[k] = "/"}}
     \cup {SubSeq(text, 1, i - 1) \o SubSeq(text, i + 1, n) :
             i \in {k \in DOMAIN text : text[k] = "="}}
     \cup {SubSeq(text, firstDot, n),
           SubSeq(text, 1, firstDot) \o SubSeq(text, lastDot, n),
           SubSeq(text, 1, lastDot),
           SubSeq(text, 1, lastDot - 1)}

Tamper ==
  /\ calc.stage = "sealed" /\ calc.payload = calc.sealed
  /\ \E text \in Alterations(calc.sealed) \ {calc.sealed} :
       calc' = [calc EXCEPT !.payload = text]
  /\ UNCHANGED <<now, db, cyc, last, disp, rival>>

Open ==
  /\ calc.stage = "sealed"
  /\ \E r \in {decryptSecretText(calc.payload)} :
       calc' = [calc EXCEPT !.stage = "opened", !.result = r]
  /\ UNCHANGED <<now, db, cyc, last, disp, rival>>

NextCrypto ==
  \/ Seal
  \/ Tamper
  \/ Open

SpecCrypto == InitCrypto /\ [][NextCrypto]_vars

----------------------------------------------------------------------------
(* POST /api/cron/publish.  Header values and the configured secret are     *)
(* strings, kept as sequences of characters.                                *)

trim(str) ==
  LET keep == {i \in DOMAIN str : str[i] # " "}
  IN IF keep = {} THEN <<>>
     ELSE SubSeq(str, CHOOSE i \in keep : \A j \in keep : i <= j,
                      CHOOSE i \in keep : \A j \in keep : i >= j)

LowerChar(c) ==
  CASE c = "B" -> "b" [] c = "E" -> "e" [] c = "A" -> "a" [] c = "R" -> "r"
    [] c = "S" -> "s" [] c = "I" -> "i" [] c = "C" -> "c" [] c = "K" -> "k"
    [] c = "Z" -> "z" [] OTHER -> c

toLowerCase(str) == [i \in DOMAIN str |-> LowerChar(str[i])]

startsWith(str, prefix) ==
  Len(str) >= Len(prefix) /\ SubSeq(str, 1, Len(prefix)) = prefix

slice(str, from) == SubSeq(str, from + 1, Len(str))

BearerPrefix == <<"b", "e", "a", "r", "e", "r", " ">>

\* a header: absent, or present with a value (Headers.get returns values
\* without surrounding whitespace)
NoHeader == [present |-> FALSE, value |-> <<>>]
Header(v) == [present |-> TRUE, value |-> v]

\* lines 5-19
\* a check that takes any bearer token
checkSecret_AnyBearer(env, xCronSecret, authorization) ==
  LET configured == trim(env)
      authHeader == IF authorization.present THEN trim(authorization.value) ELSE <<>>
  IN IF configured = <<>> THEN TRUE
     ELSE IF xCronSecret.present /\ trim(xCronSecret.value) = configured THEN TRUE
     ELSE startsWith(toLowerCase(authHeader), BearerPrefix)

checkSecret(env, xCronSecret, authorization) ==
  LET configured == trim(env)
      authHeader == IF authorization.present THEN trim(authorization.value) ELSE <<>>
  IN IF configured = <<>> THEN TRUE
     ELSE IF xCronSecret.present /\ trim(xCronSecret.value) = configured THEN TRUE
     ELSE IF startsWith(toLowerCase(authHeader), BearerPrefix)
     THEN trim(slice(authHeader, Len(BearerPrefix))) = configured
     ELSE FALSE

\* CRON_SECRET as the deployment may set it: unset, or a secret with spaces
\* around it
CronSecrets == { <<>>, <<" ", "K", " ">> }

XCronSecretHeaders ==
  { NoHeader, Header(<<"K">>), Header(<<"Z">>) }

AuthorizationHeaders ==
  { NoHeader,
    Header(<<"B", "e", "a", "r", "e", "r", " ", " ", "K">>),
    Header(<<"B", "e", "a", "r", "e", "r", " ", "Z">>),
    Header(<<"B", "a", "s", "i", "c", " ", "K">>) }

\* payload.limit as JSON carries it: absent (no JSON body, or no limit in
\* it), null, a number (in tenths, so that 15 is 1.5), a boolean, a string,
\* an array or an object
NoLimit == [kind |-> "absent", tenths |-> 0, text |-> ""]
Tenths(x) == [kind |-> "number", tenths |-> x, text |-> ""]
Text(str) == [kind |-> "string", tenths |-> 0, text |-> str]
LimitPayloads ==
  { NoLimit, Tenths(0 - 50), Tenths(15), Tenths(2009),
    [kind |-> "boolean", tenths |-> 0, text |-> "true"],
    Text("5"), Text("abc") }

NaN == [nan |-> TRUE, tenths |-> 0]
Num(x) == [nan |-> FALSE, tenths |-> x]

\* ECMAScript ToNumber, which Math.floor applies to its argument
ToNumber(v) ==
  CASE v.kind = "number" -> Num(v.tenths)
    [] v.kind = "boolean" -> Num(IF v.text = "true" THEN 10 ELSE 0)
    [] v.kind = "string" ->
         (CASE v.text = "" -> Num(0)
            [] v.text = "5" -> Num(50)
            [] OTHER -> NaN)
    [] v.kind = "array" -> IF v.text = "[]" THEN Num(0) ELSE NaN
    [] OTHER -> NaN

\* line 39: Math.max(1, Math.min(200, Math.floor(payload.limit ?? 30)));
\* a NaN passes through floor, min and max
parseLimit(pl) ==
  LET x == IF pl.kind \in {"absent", "null"} THEN Num(10 * DefaultLimit)
           ELSE ToNumber(pl)
  IN IF x.nan THEN [nan |-> TRUE, n |-> 0]
     ELSE [nan |-> FALSE, n |-> Clamp(1, 200, x.tenths \div 10)]

\* lines 21-50, up to the call of runPublisherCycle; the 200 (or 500) follows
\* when the invocation ends
CronRequest ==
  /\ cyc.phase = "idle"
  /\ Len(db.attempts) < MaxAttemptRows
  /\ \E env \in CronSecrets, xh \in XCronSecretHeaders, ah \in AuthorizationHeaders,
        pl \in LimitPayloads :
       LET req == [env |-> env, xCronSecret |-> xh, authorization |-> ah, limit |-> pl]
           limit == parseLimit(pl)
           seen == [NoLast EXCEPT !.kind = "cron", !.req = req, !.before = <<db>>]
       IN IF ~checkSecret(env, xh, ah)
          THEN /\ last' = [seen EXCEPT !.http = 401]
               /\ UNCHANGED cyc
          ELSE IF limit.nan
          THEN /\ last' = [seen EXCEPT !.http = 400]
               /\ UNCHANGED cyc
          ELSE /\ last' = [seen EXCEPT !.limit = limit.n]
               /\ cyc' = BeginCycle(db, now, limit.n)
  /\ UNCHANGED <<now, db, disp, calc, rival>>

----------------------------------------------------------------------------
(* POST /api/dispatch over its whole payload, with the activity log and a   *)
(* store that may fail a statement of the transaction                       *)

\* staggerMinutes and priority as the JSON payload carries them (numbers in
\* tenths)
MaxDispatches == 1
StaggerPayloads == { NoLimit, Tenths(0 - 10), Tenths(25), Tenths(1500), Text("abc") }
PriorityPayloads == { NoLimit, Tenths(5), Tenths(20005) }

\* a route that takes staggerMinutes as the payload gives it
parseStaggerMinutes_Unclamped(pl) ==
  LET x == IF pl.kind \in {"absent", "null"} THEN Num(10 * DefaultStagger)
           ELSE ToNumber(pl)
  IN IF x.nan THEN [nan |-> TRUE, n |-> 0]
     ELSE [nan |-> FALSE, n |-> x.tenths \div 10]

\* line 108: Math.max(0, Math.min(120, Math.floor(payload.staggerMinutes ?? 20)))
parseStaggerMinutes(pl) ==
  LET x == IF pl.kind \in {"absent", "null"} THEN Num(10 * DefaultStagger)
           ELSE ToNumber(pl)
  IN IF x.nan THEN [nan |-> TRUE, n |-> 0]
     ELSE [nan |-> FALSE, n |-> Clamp(0, 120, x.tenths \div 10)]

\* line 109: Math.max(1, Math.min(1000, Math.floor(payload.priority ?? 100)))
parsePriority(pl) ==
  LET x == IF pl.kind \in {"absent", "null"} THEN Num(10 * DefaultPriority)
           ELSE ToNumber(pl)
  IN IF x.nan THEN [nan |-> TRUE, n |-> 0]
     ELSE [nan |-> FALSE, n |-> Clamp(1, 1000, x.tenths \div 10)]

\* the statement the store fails: none, the creation of a variant or the
\* insertion of a schedule (for a reason other than its key) in the last
\* iteration, or the activity-log entry
DispatchFaults == {"none", "variant", "schedule", "log"}

\* lines 134-150 of one iteration: the variant is looked up and created if
\* absent
EnsureVariant(d, contentId, accountId, index) ==
  IF FindVariant(d, contentId, accountId) # 0 THEN d
  ELSE [d EXCEPT !.variants = Append(@,
          [contentId |-> contentId, accountId |-> accountId,
           body |-> buildVariantBody(ContentBody(contentId), d.accounts[accountId],
                                     index + 1)])]

\* a route whose statements are committed one by one
TxRollback_Autocommit(d, written) == written

\* line 111: db.$transaction; a callback that throws leaves the store as it
\* was, whatever the callback had written
TxRollback(d, written) == d

\* lines 111-213 with the activity log: d is the store, accs the target
\* accounts in the order the query returned them, stagger the parsed
\* staggerMinutes (a NaN makes rowPlannedAt an invalid date, whose
\* toISOString throws in the first iteration), f the failing statement
dispatchTxLogged(d, accs, contentId, plannedAt, stagger, priority, mode, f) ==
  LET r0 == [db |-> d, created |-> 0, aborted |-> FALSE]
      at == Len(accs) - 1
      head == DispatchLoop(r0, SubSeq(accs, 1, at), 0, contentId, plannedAt, stagger.n,
                           priority)
      full == DispatchLoop(r0, accs, 0, contentId, plannedAt, stagger.n, priority)
      struck == /\ f \in {"variant", "schedule"}
                /\ ~head.aborted
                /\ f = "variant" => FindVariant(head.db, contentId, accs[at + 1]) = 0
      partial == IF f = "variant" THEN head.db
                 ELSE EnsureVariant(head.db, contentId, accs[at + 1], at)
      entry == [event |-> "content_dispatched", created |-> full.created,
                meta |-> [mode |-> mode, staggerMinutes |-> stagger.n,
                          priority |-> priority]]
      Failed(written, fault) ==
        [db |-> TxRollback(d, written), http |-> 500, created |-> 0, fault |-> fault]
  IN IF stagger.nan THEN Failed(EnsureVariant(d, contentId, accs[1], 0), "none")
     ELSE IF struck THEN Failed(partial, f)
     ELSE IF full.aborted THEN Failed(full.db, "none")
     ELSE IF f = "log" THEN Failed(full.db, "log")
     ELSE [db |-> [full.db EXCEPT !.logs = Append(@, entry)], http |-> 200,
           created |-> full.created, fault |-> "none"]

\* POST /api/dispatch with any payload.  In rule mode the targets are the
\* accounts the routing rules matched (lines 76-105), in manual mode the
\* accounts named by the payload: any non-empty set of accounts in both.
DispatchPayload ==
  /\ cyc.phase = "idle"
  /\ Len(db.logs) < MaxDispatches
  /\ \E contentId \in Contents, targets \in (SUBSET Accounts) \ {{}},
        mode \in {"manual", "rule"}, scheduleAt \in DispatchInstants,
        stagger \in StaggerPayloads, priority \in PriorityPayloads,
        f \in DispatchFaults :
       \E accs \in AccountOrders(targets) :
         \E r \in {dispatchTxLogged(db, accs, contentId,
                                    IF scheduleAt = NULL THEN now ELSE scheduleAt,
                                    parseStaggerMinutes(stagger),
                                    parsePriority(priority).n, mode, f)} :
           LET req == [contentId |-> contentId, accountIds |-> targets, mode |-> mode,
                       scheduleAt |-> scheduleAt, staggerMinutes |-> stagger,
                       priority |-> priority]
           IN /\ Len(r.db.schedules) <= MaxDispatchRows
              /\ db' = r.db
              /\ last' = [NoLast EXCEPT
                            !.kind = "dispatched", !.req = req, !.accs = accs,
                            !.http = r.http, !.created = r.created,
                            !.fault = r.fault,
                            !.before = <<[schedules |-> db.schedules,
                                          variants |-> db.variants,
                                          logs |-> db.logs]>>]
  /\ UNCHANGED <<now, cyc, disp, calc, rival>>

\* the requests arrive at minute 2, so that an absent scheduleAt (now) and
\* scheduleAt 0 differ
InitAtomic ==
  /\ now = 2
  /\ db = EmptyStore("plain", "plain") @@ [logs |-> <<>>]
  /\ cyc = IdleCycle
  /\ last = NoLast
  /\ disp = NoDispatches
  /\ calc = NoCalc
  /\ rival = IdleCycle

NextAtomic == DispatchPayload

SpecAtomic == InitAtomic /\ [][NextAtomic]_vars

\* a backlog of schedules made through the schedules route, then cycles
BacklogInputs ==
  {[plannedAt |-> t, priority |-> pr, maxAttempts |-> DefaultMaxAttempts] :
     t \in {0, 2}, pr \in {1, DefaultPriority}}

CreateBacklogOf(inputs, max) ==
  /\ cyc.phase = "idle" /\ db.attempts = <<>>
  /\ Len(db.schedules) < max
  /\ \E accountId \in Accounts, variantId \in DOMAIN db.variants, in \in inputs :
       LET contentId == db.variants[variantId].contentId
           key == scheduleRouteKey(contentId, accountId, variantId, in.plannedAt)
           row == NewSchedule(accountId, contentId, variantId, in.plannedAt, key,
                              Clamp(1, 1000, in.priority), Clamp(1, 8, in.maxAttempts))
       IN /\ ~KeyTaken(db, key)
          /\ db' = [db EXCEPT !.schedules = Append(@, row)]
  /\ last' = NoLast
  /\ UNCHANGED <<now, cyc, disp, calc, rival>>

CreateBacklog == CreateBacklogOf(BacklogInputs, MaxBacklog)

\* the backlog the cron requests meet: up to MaxCronBacklog default-priority rows
CreateCronBacklog ==
  CreateBacklogOf({in \in BacklogInputs : in.priority = DefaultPriority}, MaxCronBacklog)

InitBacklog ==
  /\ now = 2
  /\ db = EmptyStore("plain", "plain")
  /\ cyc = IdleCycle
  /\ last = NoLast
  /\ disp = NoDispatches
  /\ calc = NoCalc
  /\ rival = IdleCycle

NextCron ==
  \/ CreateCronBacklog
  \/ CronRequest
  \/ ProcessNext
  \/ CycleReturn

SpecCron == InitBacklog /\ [][NextCron]_vars

----------------------------------------------------------------------------
(* Cycles over several days: quotas and pacing.  The store holds variants   *)
(* of unlike bodies, so that the similarity guard stays out of the way.     *)

MaxQuotaBacklog == 3
MaxQuotaAttemptRows == 3

\* instants on the first three days of a month and on the first of the next
QuotaClock == {0, 10, MinutesPerDay, 2 * MinutesPerDay, MinutesPerMonth}

QuotaBodies ==
  << {"ship", "early", "iterate", "often"},
     {"measure", "twice", "cut", "once"},
     {"write", "less", "say", "more"} >>

QuotaStore ==
  [EmptyStore("plain", "plain") EXCEPT
     !.variants = [k \in DOMAIN QuotaBodies |->
                     [contentId |-> "c1", accountId |-> NONE, body |-> QuotaBodies[k]]]]

InitQuota ==
  /\ now = 0
  /\ db = QuotaStore
  /\ cyc = IdleCycle
  /\ last = NoLast
  /\ disp = NoDispatches
  /\ calc = NoCalc
  /\ rival = IdleCycle

\* POST /api/schedules for the next variant, with maxAttempts 1
CreateQuotaBacklog ==
  /\ cyc.phase = "idle" /\ db.attempts = <<>> /\ now = 0
  /\ Len(db.schedules) < MaxQuotaBacklog
  /\ \E accountId \in Accounts :
       LET variantId == (Len(db.schedules) % Len(db.variants)) + 1
           contentId == db.variants[variantId].contentId
           key == scheduleRouteKey(contentId, accountId, variantId, 0)
           row == NewSchedule(accountId, contentId, variantId, 0, key,
                              Clamp(1, 1000, DefaultPriority), Clamp(1, 8, 1))
       IN /\ ~KeyTaken(db, key)
          /\ db' = [db EXCEPT !.schedules = Append(@, row)]
  /\ last' = NoLast
  /\ UNCHANGED <<now, cyc, disp, calc, rival>>

TickQuota ==
  /\ cyc.phase = "idle"
  /\ \E t \in QuotaClock : t > now /\ now' = t
  /\ last' = NoLast
  /\ UNCHANGED <<db, cyc, disp, calc, rival>>

StartQuotaCycle ==
  /\ cyc.phase = "idle"
  /\ Len(db.attempts) < MaxQuotaAttemptRows
  /\ cyc' = BeginCycle(db, now, DefaultLimit)
  /\ last' = [NoLast EXCEPT !.kind = "started", !.limit = DefaultLimit]
  /\ UNCHANGED <<now, db, disp, calc, rival>>

NextQuota ==
  \/ CreateQuotaBacklog
  \/ TickQuota
  \/ StartQuotaCycle
  \/ ProcessNext
  \/ CycleReturn

SpecQuota == InitQuota /\ [][NextQuota]_vars

\* the publisher over a store that already holds a CANCELED and a
\* PROCESSING row (both statuses are in the schema's ScheduleStatus; no
\* handler of the repository writes them)
MaxFrameSchedules == 4

FrameStore ==
  [EmptyStore("plain", "plain") EXCEPT
     !.schedules =
        << [NewSchedule("a1", "c1", 1, 0, "seed:1", DefaultPriority, 1)
              EXCEPT !.status = "CANCELED"],
           [NewSchedule("a2", "c1", 1, 0, "seed:2", DefaultPriority, 1)
              EXCEPT !.status = "PROCESSING"] >>]

InitFrame ==
  /\ now = 0
  /\ db = FrameStore
  /\ cyc = IdleCycle
  /\ last = NoLast
  /\ disp = NoDispatches
  /\ calc = NoCalc
  /\ rival = IdleCycle

FrameInputs ==
  {[plannedAt |-> t, priority |-> DefaultPriority, maxAttempts |-> n] :
     t \in {0, 2}, n \in {1, 2}}

CreateFrameBacklog == CreateBacklogOf(FrameInputs, MaxFrameSchedules)

NextFrame ==
  \/ CreateFrameBacklog
  \/ Tick
  \/ StartCycle
  \/ ProcessNext
  \/ CycleReturn

SpecFrame == InitFrame /\ [][NextFrame]_vars

\* the publisher over a backlog of two priorities and two planned instants,
\* with retries
InitOrder ==
  /\ now = 0
  /\ db = EmptyStore("plain", "plain")
  /\ cyc = IdleCycle
  /\ last = NoLast
  /\ disp = NoDispatches
  /\ calc = NoCalc
  /\ rival = IdleCycle

OrderInputs ==
  {[plannedAt |-> t, priority |-> pr, maxAttempts |-> 2] :
     t \in {0, 2}, pr \in {1, DefaultPriority}}

CreateOrderBacklog == CreateBacklogOf(OrderInputs, MaxBacklog)

NextOrder ==
  \/ CreateOrderBacklog
  \/ Tick
  \/ StartCycle
  \/ ProcessNext
  \/ CycleReturn

SpecOrder == InitOrder /\ [][NextOrder]_vars

\* two runPublisherCycle invocations side by side (two cron requests, or a
\* cron request during a manual run): rival is the second one
StartRival ==
  /\ rival.phase = "idle"
  /\ Len(db.attempts) < MaxAttemptRows
  /\ rival' = BeginCycle(db, now, DefaultLimit)
  /\ last' = [NoLast EXCEPT !.kind = "started", !.limit = DefaultLimit]
  /\ UNCHANGED <<now, db, cyc, disp, calc>>

\* one iteration of the rival's for loop
ProcessRival ==
  /\ rival.phase = "running"
  /\ rival.idx <= Len(rival.due)
  /\ LET schedule == rival.due[rival.idx]
         a == schedule.account
         refreshPath == /\ resolveProxyConfig(schedule).error = NONE
                        /\ a.tokenExpiresAt # NULL /\ a.tokenExpiresAt <= now
                        /\ a.refreshTokenEncrypted # NoSecret
         refreshCall == refreshPath /\ DecryptOk(a.refreshTokenEncrypted)
     IN \E rr \in (IF refreshCall THEN RefreshResponses ELSE {NoRefresh}),
           f1 \in StoreFaults,
           f2 \in (IF refreshPath THEN StoreFaults ELSE {"none"}) :
          \* the Platform answers Publish only when the call is reached
          \E resp \in (IF "publish" \in processSchedule(db, schedule, rival.recentBodies,
                                             now, rr, NetworkError, f1, f2).calls
                        THEN PlatformResponses ELSE {NoResponse}) :
            \E r \in {processSchedule(db, schedule, rival.recentBodies, now, rr, resp,
                                      f1, f2)} :
               LET seen == rival.seen \cup {schedule.s.accountId}
                   nxt == accountSeenSkip(rival.due, rival.idx + 1, seen)
               IN /\ db' = r.db
                  /\ rival' =
                       IF r.outcome = "threw" THEN IdleCycle
                       ELSE [rival EXCEPT !.idx = IF nxt = 0 THEN Len(rival.due) + 1 ELSE nxt,
                                        !.seen = seen,
                                        !.summary = Tally(@, r.outcome),
                                        !.processed = Append(@,
                                            [id |-> schedule.id,
                                             accountId |-> schedule.s.accountId]),
                                        !.faulted = @ \/ f1 # "none" \/ f2 # "none",
                                        !.recentBodies = r.recent]
                  /\ last' = [NoLast EXCEPT
                                !.kind = "processed", !.sid = schedule.id,
                                !.accountId = schedule.s.accountId,
                                !.outcome = r.outcome, !.calls = r.calls, !.resp = r.resp,
                                !.token = r.token,
                                !.refresh = IF refreshCall THEN rr ELSE NoLast.refresh,
                                !.storeFault = (f1 # "none" \/ f2 # "none"),
                                !.before = <<[s |-> db.schedules[schedule.id],
                                              account |-> db.accounts[schedule.s.accountId],
                                              attempts |-> db.attempts,
                                              snapshots |-> db.snapshots,
                                              metrics |-> db.metrics]>>]
  /\ UNCHANGED <<now, cyc, disp, calc>>

RivalReturn ==
  /\ rival.phase = "running"
  /\ rival.idx > Len(rival.due)
  /\ rival' = IdleCycle
  /\ last' = [NoLast EXCEPT !.kind = "returned", !.summary = rival.summary,
                            !.owed = rival.owed,
                            !.attempted = {rival.processed[k].accountId :
                                             k \in DOMAIN rival.processed},
                            !.due = [k \in DOMAIN rival.due |->
                                       [id |-> rival.due[k].id,
                                        accountId |-> rival.due[k].s.accountId]]]
  /\ UNCHANGED <<now, db, cyc, disp, calc>>

OverlapInputs ==
  {[plannedAt |-> 0, priority |-> DefaultPriority, maxAttempts |-> n] : n \in {1, 2}}

CreateOverlapBacklog == CreateBacklogOf(OverlapInputs, MaxSchedules)

NextOverlap ==
  \/ CreateOverlapBacklog
  \/ StartCycle
  \/ ProcessNext
  \/ CycleReturn
  \/ StartRival
  \/ ProcessRival
  \/ RivalReturn

SpecOverlap == InitOrder /\ [][NextOverlap]_vars

\* the publisher run to the end over a fixed backlog: nothing is created
\* once a cycle has settled something, the Platform answers every call, the
\* store takes every write, cycles are invoked again and again, and the
\* clock moves to its next instant when nothing is due at the present one
\* (strong fairness: the clock does not wait for the cycles, which keep it
\* disabled only while one is running)
LiveClock == {0, 2, 5, 7, 10, 12, 15, 17, 20, 22, 25, 27, 30}

LiveInputs ==
  {[plannedAt |-> t, priority |-> DefaultPriority, maxAttempts |-> n] :
     t \in {0, 2}, n \in {1, 2}}

\* the k-th schedule takes the k-th variant
CreateLiveBacklog ==
  /\ cyc.phase = "idle" /\ db.attempts = <<>> /\ now = 0
  /\ Len(db.schedules) < MaxSchedules
  /\ \E accountId \in Accounts, in \in LiveInputs :
       LET variantId == (Len(db.schedules) % Len(db.variants)) + 1
           contentId == db.variants[variantId].contentId
           key == scheduleRouteKey(contentId, accountId, variantId, in.plannedAt)
           row == NewSchedule(accountId, contentId, variantId, in.plannedAt, key,
                              Clamp(1, 1000, in.priority), Clamp(1, 8, in.maxAttempts))
       IN /\ ~KeyTaken(db, key)
          /\ db' = [db EXCEPT !.schedules = Append(@, row)]
  /\ last' = NoLast
  /\ UNCHANGED <<now, cyc, disp, calc, rival>>

TickLive ==
  /\ cyc.phase = "idle"
  /\ \A i \in DOMAIN db.schedules : ~IsDue(db.schedules[i], now)
  /\ \E t \in LiveClock :
       /\ t > now /\ \A u \in LiveClock : u > now => t <= u
       /\ now' = t
  /\ last' = NoLast
  /\ UNCHANGED <<db, cyc, disp, calc, rival>>

StartLiveCycle ==
  /\ cyc.phase = "idle"
  /\ cyc' = BeginCycle(db, now, DefaultLimit)
  /\ last' = [NoLast EXCEPT !.kind = "started", !.limit = DefaultLimit]
  /\ UNCHANGED <<now, db, disp, calc, rival>>

\* processSchedule with every Platform call answered and every write taken
ProcessAnswered ==
  /\ ProcessNext
  /\ ~last'.storeFault
  /\ last'.resp.kind # "network_error"
  /\ last'.refresh.kind # "throw"

NextLive ==
  \/ CreateLiveBacklog
  \/ TickLive
  \/ StartLiveCycle
  \/ ProcessAnswered
  \/ CycleReturn

SpecLive ==
  /\ InitQuota /\ [][NextLive]_vars
  /\ SF_vars(TickLive) /\ WF_vars(StartLiveCycle)
  /\ WF_vars(ProcessAnswered) /\ WF_vars(CycleReturn)

\* the publisher over accounts with failing secrets, proxies and tokens
InitTokens ==
  /\ now = 0
  /\ \E p \in TokenProfiles : db = EmptyStore(p[1], p[2])
  /\ cyc = IdleCycle
  /\ last = NoLast
  /\ disp = NoDispatches
  /\ calc = NoCalc
  /\ rival = IdleCycle

SpecTokens == InitTokens /\ [][Next]_vars

----------------------------------------------------------------------------
(* computeRetryAt for the attempt numbers and reset instants a failure      *)
(* settlement can hand it                                                   *)

MaxAttemptNo == 5
RetryNows == {0, 1, 7}
ResetInstants == {NULL, 0, 3, 9, 12, 31, 40}

InitRetry ==
  /\ now = 0
  /\ db = EmptyStore("plain", "plain")
  /\ cyc = IdleCycle
  /\ last = NoLast
  /\ disp = NoDispatches
  /\ calc \in {[stage |-> "failure", now |-> t, attemptNo |-> n, resetAt |-> r,
                 nextAttemptAt |-> NULL, afterNext |-> NULL] :
                  t \in RetryNows, n \in 1 .. MaxAttemptNo, r \in ResetInstants}
  /\ rival = IdleCycle

\* lines 417-419 for a failure that can be retried, and for the attempt
\* after it at the same instant
RetryAt ==
  /\ calc.stage = "failure"
  /\ calc' = [calc EXCEPT
                !.stage = "retry",
                !.nextAttemptAt = computeRetryAt(calc.now, calc.attemptNo, calc.resetAt),
                !.afterNext = computeRetryAt(calc.now, calc.attemptNo + 1, calc.resetAt)]
  /\ UNCHANGED <<now, db, cyc, last, disp, rival>>

NextRetry == RetryAt

\* the process environment the two Platform functions read: MOCK_X_API and
\* the OAuth client credentials (as sequences of characters; a credential
\* that is not set reads as the empty one, process.env.X ?? "")
PlatformEnvs ==
  [MOCK_X_API : {"1", "true", NONE},
   AUTH_TWITTER_ID : {<<>>, <<" ">>, <<"i", "d">>},
   AUTH_TWITTER_SECRET : {<<>>, <<"s">>}]

\* part_004:180-192: the mock branch comes first in publishPostToX
publishPostToXIn(env, resp, t) ==
  IF env.MOCK_X_API = "1"
  THEN [threw |-> FALSE, ok |-> TRUE, status |-> 200, errorMessage |-> NONE,
        resetAt |-> t + 15]
  ELSE publishPostToX(resp, t)

\* part_004:247-268: refreshAccessTokenOnX reads the client credentials and
\* answers 500 without them before it looks at MOCK_X_API
refreshAccessTokenOnXIn(env, refreshToken, rr, t) ==
  LET clientId == trim(env.AUTH_TWITTER_ID)
      clientSecret == trim(env.AUTH_TWITTER_SECRET)
  IN IF clientId = <<>> \/ clientSecret = <<>>
     THEN [threw |-> FALSE, ok |-> FALSE, accessToken |-> NONE, refreshToken |-> NONE,
           expiresAt |-> NULL, errorMessage |-> "OAuth client credentials are missing."]
     ELSE IF env.MOCK_X_API = "1"
     THEN [threw |-> FALSE, ok |-> TRUE, accessToken |-> "mock_access_" \o ToString(t),
           refreshToken |-> refreshToken, expiresAt |-> t + 30 * MinutesPerDay,
           errorMessage |-> NONE]
     ELSE refreshAccessTokenOnX(refreshToken, rr, t)

\* the two Platform functions under every environment and every answer of
\* the Platform
InitPlatform ==
  /\ now = 0
  /\ db = EmptyStore("plain", "plain")
  /\ cyc = IdleCycle
  /\ last = NoLast
  /\ disp = NoDispatches
  /\ calc \in {[stage |-> "env", env |-> env, resp |-> resp, rr |-> rr,
                 result |-> NoResponse] :
                  env \in PlatformEnvs, resp \in PlatformResponses, rr \in RefreshResponses}
  /\ rival = IdleCycle

CallPublish ==
  /\ calc.stage = "env"
  /\ calc' = [calc EXCEPT !.stage = "published",
                          !.result = publishPostToXIn(calc.env, calc.resp, now)]
  /\ UNCHANGED <<now, db, cyc, last, disp, rival>>

CallRefresh ==
  /\ calc.stage = "env"
  /\ calc' = [calc EXCEPT !.stage = "refreshed",
                          !.result = refreshAccessTokenOnXIn(calc.env, "rt0", calc.rr, now)]
  /\ UNCHANGED <<now, db, cyc, last, disp, rival>>

NextPlatform ==
  \/ CallPublish
  \/ CallRefresh

SpecPlatform == InitPlatform /\ [][NextPlatform]_vars

SpecRetry == InitRetry /\ [][NextRetry]_vars

----------------------------------------------------------------------------
(* lib/risk on text: tokenize and jaccardSimilarity for strings, kept as    *)
(* sequences of characters.                                                 *)

Letters ==
  {"a", "b", "c", "d", "e", "f", "g", "h", "i", "j", "k", "l", "m", "n", "o", "p",
   "q", "r", "s", "t", "u", "v", "w", "x", "y", "z",
   "A", "B", "C", "D", "E", "F", "G", "H", "I", "J", "K", "L", "M", "N", "O", "P",
   "Q", "R", "S", "T", "U", "V", "W", "X", "Y", "Z"}
Digits == {"0", "1", "2", "3", "4", "5", "6", "7", "8", "9"}
Whitespace == {" "}

HttpPrefix == <<"h", "t", "t", "p", ":", "/", "/">>
HttpsPrefix == <<"h", "t", "t", "p", "s", ":", "/", "/">>

\* the end of the match of /https?:\/\/\S+/ that starts at i, or 0
UrlMatchEnd(str, i) ==
  LET rest == SubSeq(str, i, Len(str))
      skip == IF startsWith(rest, HttpsPrefix) THEN Len(HttpsPrefix)
              ELSE IF startsWith(rest, HttpPrefix) THEN Len(HttpPrefix)
              ELSE 0
      from == i + skip
      stops == {j \in from .. Len(str) : str[j] \in Whitespace}
      end == IF stops = {} THEN Len(str)
             ELSE (CHOOSE j \in stops : \A k \in stops : j <= k) - 1
  IN IF skip = 0 \/ end < from THEN 0 ELSE end

\* line 6: .replace(/https?:\/\/\S+/g, " ")
RECURSIVE replaceUrls(_, _)
replaceUrls(str, i) ==
  IF i > Len(str) THEN <<>>
  ELSE IF UrlMatchEnd(str, i) > 0
  THEN <<" ">> \o replaceUrls(str, UrlMatchEnd(str, i) + 1)
  ELSE <<str[i]>> \o replaceUrls(str, i + 1)

\* lines 7-8: [@#] and whatever is no letter, digit or white space
replaceMarks(str) ==
  [i \in DOMAIN str |->
     IF str[i] \in {"@", "#"} THEN " "
     ELSE IF str[i] \in Letters \cup Digits \cup Whitespace THEN str[i]
     ELSE " "]

\* line 9: .split(/\s+/), which yields "" before leading and after trailing
\* white space
RECURSIVE splitWhitespace(_, _)
splitWhitespace(str, token) ==
  IF str = <<>> THEN <<token>>
  ELSE IF Head(str) \in Whitespace
  THEN IF Len(str) > 1 /\ str[2] \in Whitespace
       THEN splitWhitespace(Tail(str), token)
       ELSE <<token>> \o splitWhitespace(Tail(str), <<>>)
  ELSE splitWhitespace(Tail(str), Append(token, Head(str)))

\* lines 3-11
tokenize(input) ==
  LET parts == splitWhitespace(replaceMarks(replaceUrls(toLowerCase(input), 1)), <<>>)
  IN SelectSeq(parts, LAMBDA token : Len(token) > 1)

TokenSet(tokens) == {tokens[i] : i \in DOMAIN tokens}

\* lines 21-35 on two strings
jaccardSimilarityText(a, b) ==
  jaccardSimilarity(TokenSet(tokenize(a)), TokenSet(tokenize(b)))

MaxTextLen == 2
TextAlphabet == {"a", "B", "1", " ", "#", ","}

\* every text of up to MaxTextLen characters, and longer ones with a URL,
\* a mention, punctuation, repeated and reordered words
Texts ==
  UNION {[1 .. n -> TextAlphabet] : n \in 0 .. MaxTextLen}
  \cup {
    <<"a", "b", " ", "c", "d">>,
    <<"c", "d", " ", "a", "b">>,
    <<"a", "b", " ", "a", "b", " ", "c", "d">>,
    <<"A", "b", ",", " ", "c", "d", "!">>,
    <<"h", "t", "t", "p", ":", "/", "/", "x", ".", "y", " ", "a", "b">>,
    <<"s", "e", "e", " ", "h", "t", "t", "p", "s", ":", "/", "/", "x", " ", "a", "b">>,
    <<"@", "a", "b", " ", "#", "c", "d">>,
    <<"a", " ", "b", " ", "c">>,
    <<"a", "b", " ", "c", "d", " ", "e", "f">>,
    <<"a", "b", " ", "c", "d", " ", "e", "g">> }

InitSimilarity ==
  /\ now = 0
  /\ db = EmptyStore("plain", "plain")
  /\ cyc = IdleCycle
  /\ last = NoLast
  /\ disp = NoDispatches
  /\ calc \in {[stage |-> "texts", a |-> a, b |-> b, ab |-> <<0, 1>>, ba |-> <<0, 1>>,
                 aa |-> <<0, 1>>] : a \in Texts, b \in Texts}
  /\ rival = IdleCycle

Compare ==
  /\ calc.stage = "texts"
  /\ calc' = [calc EXCEPT !.stage = "compared",
                          !.ab = jaccardSimilarityText(calc.a, calc.b),
                          !.ba = jaccardSimilarityText(calc.b, calc.a),
                          !.aa = jaccardSimilarityText(calc.a, calc.a)]
  /\ UNCHANGED <<now, db, cyc, last, disp, rival>>

NextSimilarity == Compare

SpecSimilarity == InitSimilarity /\ [][NextSimilarity]_vars

NextFairness ==
  \/ CreateBacklog
  \/ StartCycle
  \/ ProcessNext
  \/ CycleReturn

SpecFairness == InitBacklog /\ [][NextFairness]_vars

\* two dispatch requests with the same parameters, interleaved
NextConcurrent ==
  \/ \E p \in Clients : BeginDispatch(p)
  \/ \E p \in Clients : StepDispatch(p)
  \/ \E p \in Clients : CommitDispatch(p)
  \/ \E p \in Clients : RollbackDispatch(p)
  \/ DeadlockDispatch

SpecConcurrent == InitDispatch /\ [][NextConcurrent]_vars

\* lines 35-123 for requests that share the content only: each request in
\* flight carries its own accountIds, scheduleAt and staggerMinutes
BeginAnyDispatch(p) ==
  /\ cyc.phase = "idle"
  /\ disp[p].pc = "idle"
  /\ \E contentId \in Contents, targets \in (SUBSET Accounts) \ {{}},
        scheduleAt \in DispatchTimes, staggerMinutes \in Staggers :
       LET req == [contentId |-> contentId, accountIds |-> targets,
                   scheduleAt |-> scheduleAt, staggerMinutes |-> staggerMinutes]
       IN \E accs \in AccountOrders(targets) :
            disp' = [disp EXCEPT ![p] =
                       [IdleDispatch EXCEPT !.pc = "loop", !.req = req, !.accs = accs,
                                            !.plannedAt = scheduleAt]]
  /\ last' = NoLast
  /\ UNCHANGED <<now, db, cyc, calc, rival>>

\* two dispatch requests for the same content, interleaved
NextVariants ==
  \/ \E p \in Clients : BeginAnyDispatch(p)
  \/ \E p \in Clients : StepDispatch(p)
  \/ \E p \in Clients : CommitDispatch(p)
  \/ \E p \in Clients : RollbackDispatch(p)
  \/ DeadlockDispatch

SpecVariants == InitDispatch /\ [][NextVariants]_vars

----------------------------------------------------------------------------
(* Properties *)

ScheduleIds == DOMAIN db.schedules

AttemptRowsOf(rows, sid) == {k \in DOMAIN rows : rows[k].scheduleId = sid}

Processed == last.kind = "processed"
Before == last.before[1]
\* the processSchedule call just made ran with every store write succeeding
Clean == Processed /\ ~last.storeFault

\* C1: no schedule ever has attemptCount > maxAttempts, whatever schedules
\* were created or dispatched and whatever cycles ran.
C1_AttemptCountWithinMax ==
  \A i \in ScheduleIds : db.schedules[i].attemptCount <= db.schedules[i].maxAttempts

\* a failed Publish just used up the last attempt of a schedule
C1_Witness ==
  /\ Processed /\ "publish" \in last.calls /\ last.resp.status = 500
  /\ db.schedules[last.sid].attemptCount = db.schedules[last.sid].maxAttempts
  /\ db.schedules[last.sid].status = "BLOCKED"

\* C2: every POSTED schedule has a postedAt, exactly one SUCCESS attempt row
\* whose attemptNo is the schedule's attemptCount, and exactly one PostMetric row.
C2_PostedAudit ==
  \A i \in ScheduleIds :
    db.schedules[i].status = "POSTED" =>
      /\ db.schedules[i].postedAt # NULL
      /\ Cardinality({k \in AttemptRowsOf(db.attempts, i) :
                        /\ db.attempts[k].status = "SUCCESS"
                        /\ db.attempts[k].attemptNo = db.schedules[i].attemptCount}) = 1
      /\ Cardinality({k \in DOMAIN db.metrics : db.metrics[k] = i}) = 1

\* a schedule was posted on its second attempt
C2_Witness ==
  \E i \in ScheduleIds :
    db.schedules[i].status = "POSTED" /\ db.schedules[i].attemptCount = 2

C4_FailureContained == Processed => last.outcome # "threw"

\* the Platform's answer is retryable: a network error with no HTTP response,
\* or a status that is neither a success nor 401/403
RetryableAnswer ==
  \/ last.resp.kind = "network_error"
  \/ last.resp.kind = "response" /\ last.resp.status \in {408, 425, 429} \cup (500 .. 599)

\* C5: a Publish failure with a retryable status or a network error, on a
\* schedule whose attemptCount + 1 < maxAttempts, leaves the schedule FAILED
\* with attemptCount one higher and a nextAttemptAt, and appends exactly one
\* FAIL attempt row.
C5_RetryableFailureSettles ==
  (/\ Clean /\ "publish" \in last.calls /\ RetryableAnswer
   /\ Before.s.attemptCount + 1 < Before.s.maxAttempts)
  => /\ db.schedules[last.sid].status = "FAILED"
     /\ db.schedules[last.sid].attemptCount = Before.s.attemptCount + 1
     /\ db.schedules[last.sid].nextAttemptAt # NULL
     /\ Len(db.attempts) = Len(Before.attempts) + 1
     /\ SubSeq(db.attempts, 1, Len(Before.attempts)) = Before.attempts
     /\ db.attempts[Len(db.attempts)].status = "FAIL"
     /\ db.attempts[Len(db.attempts)].scheduleId = last.sid

\* schedule i has a FAIL attempt row for a 401 or 403
ForceBlocked(i) ==
  \E k \in AttemptRowsOf(db.attempts, i) :
    db.attempts[k].status = "FAIL" /\ db.attempts[k].httpStatus \in {401, 403}

\* C6: (store writes succeeding) a 401 or 403 from Publish leaves the schedule
\* BLOCKED with nextAttemptAt null, whatever attempts remain, and the account
\* TOKEN_EXPIRED (401) or SUSPENDED (403); afterwards the schedule is never
\* due, no later invocation selects it and no attempt row follows the 401/403
\* row.
C6_ForceBlockIsTerminal ==
  /\ (Clean /\ "publish" \in last.calls /\ last.resp.status \in {401, 403})
       => /\ db.schedules[last.sid].status = "BLOCKED"
          /\ db.schedules[last.sid].nextAttemptAt = NULL
          /\ db.accounts[last.accountId].status =
                (IF last.resp.status = 401 THEN "TOKEN_EXPIRED" ELSE "SUSPENDED")
  /\ \A i \in ScheduleIds :
       ForceBlocked(i) =>
         /\ db.schedules[i].status = "BLOCKED" /\ db.schedules[i].nextAttemptAt = NULL
         /\ ~IsDue(db.schedules[i], now)
         /\ \A k \in AttemptRowsOf(db.attempts, i), m \in AttemptRowsOf(db.attempts, i) :
              (db.attempts[k].status = "FAIL" /\ db.attempts[k].httpStatus \in {401, 403})
                => m <= k
         /\ (cyc.phase = "running" /\ \E k \in DOMAIN cyc.due : cyc.due[k].id = i)
              => \E k \in DOMAIN cyc.processed : cyc.processed[k].id = i

\* a 403 blocked a schedule that had attempts left, and a later invocation
\* has started without selecting it
C6_Witness ==
  \E i \in ScheduleIds :
    /\ ForceBlocked(i) /\ db.schedules[i].attemptCount < db.schedules[i].maxAttempts
    /\ db.accounts[db.schedules[i].accountId].status = "SUSPENDED"
    /\ cyc.phase = "running" /\ \A k \in DOMAIN cyc.due : cyc.due[k].id # i

\* C7: every Publish call for a schedule comes no earlier than RETRY_MINUTES[1]
\* after the finishedAt of each earlier failed attempt of that schedule, and no
\* earlier than that attempt's rate-limit reset instant when it had one.
C7_BackoffRespected ==
  (Processed /\ "publish" \in last.calls) =>
    \A k \in AttemptRowsOf(Before.attempts, last.sid) :
      Before.attempts[k].status = "FAIL" =>
        /\ now >= Before.attempts[k].finishedAt + RETRY_MINUTES[1]
        /\ Before.attempts[k].rateLimitResetAt # NULL
             => now >= Before.attempts[k].rateLimitResetAt

\* Publish is called again for a schedule whose failed attempt carried a
\* reset instant later than the back-off
C7_Witness ==
  /\ Processed /\ "publish" \in last.calls
  /\ \E k \in AttemptRowsOf(Before.attempts, last.sid) :
       /\ Before.attempts[k].status = "FAIL"
       /\ Before.attempts[k].rateLimitResetAt
            > Before.attempts[k].finishedAt + RETRY_MINUTES[1]

\* the account's pacing interval has not elapsed at the processing instant
TooSoon ==
  /\ Before.account.lastPostedAt # NULL
  /\ addMinutes(Before.account.lastPostedAt, Before.account.minIntervalMinutes) > now

\* the refresh made by the call succeeded: the account row holds a token
\* that is not expired
RefreshSucceeded ==
  /\ "refresh" \in last.calls
  /\ \/ db.accounts[last.accountId].tokenExpiresAt = NULL
     \/ db.accounts[last.accountId].tokenExpiresAt > now

\* processSchedule got as far as applyRiskGuards: the proxy configuration
\* resolved and an access token was at hand
ReachedRiskGate ==
  /\ resolveProxyConfig([account |-> Before.account]).error = NONE
  /\ \/ /\ Before.account.tokenExpiresAt = NULL \/ Before.account.tokenExpiresAt > now
        /\ DecryptOk(Before.account.accessTokenEncrypted)
     \/ RefreshSucceeded

MinIntervalRescheduled ==
  /\ "publish" \notin last.calls
  /\ db.attempts = Before.attempts
  /\ db.schedules[last.sid].attemptCount = Before.s.attemptCount
  /\ db.schedules[last.sid].status = "PENDING"
  /\ db.schedules[last.sid].plannedAt =
        addMinutes(Before.account.lastPostedAt, Before.account.minIntervalMinutes)
  /\ db.schedules[last.sid].nextAttemptAt = NULL
  /\ last.outcome = "rescheduled"
  /\ cyc.summary.rescheduled >= 1

\* C8 as stated: whenever the account's lastPostedAt + minIntervalMinutes is
\* later than now, processing a due schedule makes no Publish call, appends
\* no attempt row, keeps attemptCount, leaves the schedule PENDING with
\* plannedAt = lastPostedAt + minIntervalMinutes and nextAttemptAt null, and
\* is counted as rescheduled.
C8_TooSoonAlwaysReschedules == (Clean /\ TooSoon) => MinIntervalRescheduled

\* C8: the same, for a schedule whose processing reaches the risk gate (the
\* proxy configuration resolves and an access token is available, stored or
\* refreshed).
C8_MinIntervalReschedule ==
  (Clean /\ TooSoon /\ ReachedRiskGate) => MinIntervalRescheduled

\* a due schedule was moved to the end of the pacing interval
C8_Witness ==
  /\ Clean /\ TooSoon /\ ReachedRiskGate
  /\ last.outcome = "rescheduled"
  /\ db.schedules[last.sid].plannedAt > Before.s.plannedAt

DayPostsBefore ==
  Cardinality({i \in ScheduleIds \ {last.sid} :
     /\ db.schedules[i].accountId = last.accountId
     /\ db.schedules[i].status = "POSTED"
     /\ db.schedules[i].postedAt # NULL
     /\ db.schedules[i].postedAt >= startOfDay(now)})

QuotaReached == DayPostsBefore >= Before.account.dailyPostLimit

DailyQuotaBlocked ==
  /\ last.outcome = "blocked"
  /\ db.schedules[last.sid].status = "BLOCKED"
  /\ db.schedules[last.sid].lastError =
        "Daily quota reached (" \o ToString(Before.account.dailyPostLimit) \o ")."
  /\ Len(db.attempts) = Len(Before.attempts) + 1
  /\ SubSeq(db.attempts, 1, Len(Before.attempts)) = Before.attempts
  /\ db.attempts[Len(db.attempts)].scheduleId = last.sid
  /\ db.attempts[Len(db.attempts)].status = "BLOCKED"

\* C10 as stated: with the day's POSTED count at or above dailyPostLimit,
\* processing a due schedule of the account makes no Platform call at all
\* (neither Publish nor RefreshToken), for every token state, puts the
\* schedule in BLOCKED with lastError "Daily quota reached (N)." and appends
\* exactly one BLOCKED attempt row.
C10_QuotaNoNetworkCall ==
  (Clean /\ QuotaReached) => (last.calls = {} /\ DailyQuotaBlocked)

\* C10: with the day's POSTED count at or above dailyPostLimit, processing a
\* due schedule never calls Publish; RefreshToken is called only for an
\* expired token with a stored refresh token; and when processing reaches the
\* quota check (risk gate reached, pacing interval elapsed) the schedule is
\* BLOCKED with lastError "Daily quota reached (N)." and exactly one BLOCKED
\* attempt row is appended.
C10_QuotaNoPublish ==
  (Clean /\ QuotaReached) =>
    /\ "publish" \notin last.calls
    /\ "refresh" \in last.calls =>
         /\ Before.account.tokenExpiresAt # NULL /\ Before.account.tokenExpiresAt <= now
         /\ Before.account.refreshTokenEncrypted # NoSecret
    /\ (ReachedRiskGate /\ ~TooSoon) => DailyQuotaBlocked

\* the quota blocked a schedule after its expired token had been refreshed
C10_Witness ==
  /\ Clean /\ QuotaReached /\ ReachedRiskGate /\ ~TooSoon
  /\ last.calls = {"refresh"}
  /\ last.outcome = "blocked"

----------------------------------------------------------------------------
(* Properties of the dispatch route (SpecDispatch) *)

Dispatched == last.kind = "dispatched"

RowSet(rows) == {rows[i] : i \in DOMAIN rows}

\* the idempotency keys the request computes, in the order the accounts came
\* back
RequestKeys ==
  [k \in DOMAIN last.accs |->
     buildIdempotencyKey(last.req.contentId, last.accs[k],
        addMinutes(IF last.req.scheduleAt = NULL THEN now ELSE last.req.scheduleAt,
                   Clamp(0, 120, IF last.req.staggerMinutes = NULL THEN DefaultStagger
                                 ELSE last.req.staggerMinutes) * (k - 1)))]

KeyHeldBefore(key) ==
  \E i \in DOMAIN Before.schedules : Before.schedules[i].idempotencyKey = key

\* C11: a dispatch that repeats the contentId, accountIds, scheduleAt and
\* staggerMinutes of the successful dispatch just before it inserts no
\* schedule row and leaves the set of schedule rows as the first call left it.
C11_DispatchIdempotent ==
  (Dispatched /\ last.again /\ last.req.scheduleAt # NULL) =>
    /\ last.created = 0
    /\ RowSet(db.schedules) = RowSet(Before.schedules)

\* C13: a dispatch that meets a taken idempotencyKey for one target account
\* skips that account without an error: it answers 200, reports as created
\* exactly the targets whose key was free, and those rows are in the store.
C13_DuplicateSkipped ==
  (Dispatched /\ \E k \in DOMAIN RequestKeys : KeyHeldBefore(RequestKeys[k])) =>
    /\ last.http = 200
    /\ last.created =
         Cardinality({k \in DOMAIN RequestKeys : ~KeyHeldBefore(RequestKeys[k])})
    /\ \A k \in DOMAIN RequestKeys :
         \E i \in DOMAIN db.schedules : db.schedules[i].idempotencyKey = RequestKeys[k]

----------------------------------------------------------------------------
(* Properties of concurrent dispatches (SpecConcurrent) *)

RowsAt(contentId, accountId, plannedAt) ==
  {i \in DOMAIN db.schedules :
     /\ db.schedules[i].contentId = contentId
     /\ db.schedules[i].accountId = accountId
     /\ db.schedules[i].plannedAt = plannedAt}

BothDone == \A p \in Clients : disp[p].pc = "done"

\* C12: two dispatch requests with the same parameters, interleaved in any
\* way, never leave two schedule rows with the same contentId, accountId and
\* plannedAt; when both have ended at least one has committed, and each row a
\* committed request planned is in the store exactly once.
C12_ConcurrentDispatchNoDuplicate ==
  /\ \A i, j \in DOMAIN db.schedules :
       (/\ db.schedules[i].contentId = db.schedules[j].contentId
        /\ db.schedules[i].accountId = db.schedules[j].accountId
        /\ db.schedules[i].plannedAt = db.schedules[j].plannedAt) => i = j
  /\ BothDone =>
       /\ \E p \in Clients : disp[p].http = 200
       /\ \A p \in Clients :
            disp[p].http = 200 =>
              \A k \in DOMAIN disp[p].accs :
                Cardinality(RowsAt(disp[p].req.contentId, disp[p].accs[k],
                   addMinutes(disp[p].plannedAt,
                              Clamp(0, 120, disp[p].req.staggerMinutes) * (k - 1)))) = 1

\* two requests for two accounts collided on their keys after reading the
\* accounts in opposite orders: one committed, the other was rolled back
C12_Witness ==
  /\ BothDone
  /\ disp[1].http = 200 /\ disp[2].http = 500
  /\ Len(disp[1].accs) = 2 /\ disp[1].accs # disp[2].accs
  /\ Len(db.schedules) = 2

----------------------------------------------------------------------------
(* Properties of the cycle over a backlog (SpecFairness) *)

Returned == last.kind = "returned"

\* C14: when the accounts holding a due schedule at the start of a cycle
\* number at most limit, the cycle that returns has attempted a schedule of
\* each of them, however many due schedules of smaller priority value
\* another account holds.
C14_NoStarvation == Returned => last.owed \subseteq last.attempted

----------------------------------------------------------------------------
(* POST /api/cron/publish                                                   *)

CronAnswered == last.kind = "cron"

\* the configured secret, as the deployment means it
Secret == trim(last.req.env)

XCronSecretMatches ==
  last.req.xCronSecret.present /\ last.req.xCronSecret.value = Secret

\* Authorization: <bearer, in any case> <spaces> <the secret>
BearerMatches ==
  LET v == last.req.authorization.value
  IN /\ last.req.authorization.present
     /\ \E n \in 7 .. Len(v) :
          /\ toLowerCase(SubSeq(v, 1, 7)) = BearerPrefix
          /\ \A i \in 8 .. n : v[i] = " "
          /\ SubSeq(v, n + 1, Len(v)) = Secret

\* C15: with a secret configured, a request whose X-Cron-Secret header and
\* whose bearer token both differ from it is answered 401, no cycle starts
\* and no row changes; with no secret configured no request is answered 401.
C15_CronSecretGate ==
  CronAnswered =>
    /\ (Secret # <<>> /\ ~XCronSecretMatches /\ ~BearerMatches)
         => (last.http = 401 /\ cyc.phase = "idle" /\ db = last.before[1])
    /\ Secret = <<>> => last.http # 401

\* a due backlog, a secret configured, both headers sent and both wrong
C15_Witness ==
  /\ CronAnswered /\ last.http = 401
  /\ last.req.xCronSecret.present /\ last.req.authorization.present
  /\ startsWith(toLowerCase(last.req.authorization.value), BearerPrefix)
  /\ DueAccounts(db, now) # {}

\* C16: the cycle is invoked with an integer limit in 1..200, which is 30
\* when the limit is omitted and the clamped number otherwise; a limit that
\* is not a number is answered 400 and no cycle starts; the cycle scans at
\* most limit rows.
C16_LimitContract ==
  (CronAnswered /\ last.http # 401) =>
    LET pl == last.req.limit
    IN /\ cyc.phase = "running"
            => (last.limit \in 1 .. 200 /\ cyc.summary.scanned <= last.limit)
       /\ pl.kind = "absent" => (cyc.phase = "running" /\ last.limit = DefaultLimit)
       /\ pl.kind = "number"
            => (cyc.phase = "running"
                /\ last.limit = Clamp(1, 200, pl.tenths \div 10))
       /\ pl.kind \in {"boolean", "string", "array", "object"}
            => (last.http = 400 /\ cyc.phase = "idle")

----------------------------------------------------------------------------
(* encryptSecret / decryptSecret (SpecCrypto) *)

Opened == calc.stage = "opened"

SegmentsOf(text) ==
  LET parts == split(text) IN [k \in 1 .. 3 |-> IF k <= Len(parts) THEN <<parts[k]>> ELSE <<>>]

\* a segment of the payload is missing or is not the one encryptSecret wrote
SegmentAltered == SegmentsOf(calc.payload) # SegmentsOf(calc.sealed)

\* C17: decryptSecret returns x for encryptSecret(x), whatever the string x,
\* the empty one included, and throws for a payload one of whose three
\* segments is missing or altered.
C17_SealOpenRoundTrip ==
  Opened =>
    /\ calc.payload = calc.sealed => (calc.result.ok /\ calc.result.value = calc.value)
    /\ SegmentAltered => ~calc.result.ok

----------------------------------------------------------------------------
(* jaccardSimilarity (SpecSimilarity) *)

Compared == calc.stage = "compared"

\* two fractions that are the same number
SameNumber(x, y) == x[1] * y[2] = y[1] * x[2]

\* the words of at least two letters or digits the text holds, URLs aside
HasToken(text) == tokenize(text) # <<>>

\* C18: jaccardSimilarity(a, b) = jaccardSimilarity(b, a); the similarity
\* of a text with itself is 1 when the text has a token; the similarity is
\* 0 when either text has none.
C18_JaccardSymmetric ==
  Compared =>
    /\ SameNumber(calc.ab, calc.ba)
    /\ HasToken(calc.a) => (calc.aa[1] = calc.aa[2] /\ calc.aa[2] > 0)
    /\ (~HasToken(calc.a) \/ ~HasToken(calc.b)) => calc.ab[1] = 0

\* two texts that share one of their words, compared in both orders
C18_Witness ==
  /\ Compared
  /\ HasToken(calc.a) /\ HasToken(calc.b)
  /\ calc.a # calc.b
  /\ calc.ab[1] > 0 /\ calc.ab[1] < calc.ab[2]

----------------------------------------------------------------------------
(* The summary runPublisherCycle returns *)

SelectedAccounts == {last.due[k].accountId : k \in DOMAIN last.due}

\* C19: in the summary a cycle returns, scanned is the number of rows
\* selected, attempted the number of distinct accounts among them, and
\* posted + failed + blocked + rescheduled = attempted <= scanned.
C19_SummaryTallies ==
  Returned =>
    LET s == last.summary
    IN /\ s.scanned = Len(last.due)
       /\ s.attempted = Cardinality(SelectedAccounts)
       /\ s.posted + s.failed + s.blocked + s.rescheduled = s.attempted
       /\ s.attempted <= s.scanned

\* two rows of one account selected, one of them attempted
C19_Witness ==
  /\ Returned
  /\ last.summary.scanned = 2 /\ last.summary.attempted = 1

----------------------------------------------------------------------------
(* Status and retry time of a schedule *)

\* C20: in every state, a FAILED schedule has a nextAttemptAt and
\* attemptCount < maxAttempts, and a BLOCKED or POSTED schedule has no
\* nextAttemptAt.
C20_StatusRetryAt ==
  \A i \in ScheduleIds :
    LET sc == db.schedules[i]
    IN /\ sc.status = "FAILED"
            => (sc.nextAttemptAt # NULL /\ sc.attemptCount < sc.maxAttempts)
       /\ sc.status \in {"BLOCKED", "POSTED"} => sc.nextAttemptAt = NULL

\* a schedule blocked after an attempt, next to one that waits for its retry
C20_Witness ==
  /\ \E i \in ScheduleIds :
       /\ db.schedules[i].status = "BLOCKED" /\ db.schedules[i].attemptCount >= 1
  /\ \E i \in ScheduleIds :
       /\ db.schedules[i].status = "FAILED" /\ db.schedules[i].nextAttemptAt # NULL

----------------------------------------------------------------------------
(* computeRetryAt (SpecRetry) *)

\* the delay of attempt n in minutes: 2, 10, then 30
Backoff(n) == IF n <= 1 THEN 2 ELSE IF n = 2 THEN 10 ELSE 30

\* C21: for attempt n >= 1 the retry time is max(now + backoff, resetAt)
\* with backoff 2, 10, 30, 30, ... minutes, it is now + backoff when no
\* reset instant was returned, and the delay does not decrease with n.
C21_RetryAtFormula ==
  calc.stage = "retry" =>
    LET byBackoff == calc.now + Backoff(calc.attemptNo)
    IN /\ calc.resetAt = NULL => calc.nextAttemptAt = byBackoff
       /\ calc.resetAt # NULL
            => calc.nextAttemptAt = IF calc.resetAt > byBackoff THEN calc.resetAt
                                    ELSE byBackoff
       /\ calc.afterNext >= calc.nextAttemptAt

\* a third attempt whose reset instant lies past the 30 minutes
C21_Witness ==
  /\ calc.stage = "retry"
  /\ calc.attemptNo >= 3
  /\ calc.resetAt # NULL /\ calc.nextAttemptAt = calc.resetAt
  /\ calc.resetAt > calc.now + 30

----------------------------------------------------------------------------
(* The account status after a failed Publish *)

\* Publish was called and answered with a failure other than 401, 403, 429
OtherFailure ==
  /\ Clean /\ "publish" \in last.calls
  /\ last.resp.kind = "response"
  /\ last.resp.status \notin {200, 401, 403, 429}

\* C22: a Publish failure with a status other than 401, 403 and 429 leaves
\* the account's stored status as it was just before the settlement: ACTIVE
\* when a refresh earlier in the same call had set it, else the status the
\* account had when the call began.
C22_OtherFailureKeepsAccountStatus ==
  OtherFailure =>
    db.accounts[last.accountId].status =
      IF RefreshSucceeded THEN "ACTIVE" ELSE Before.account.status

----------------------------------------------------------------------------
(* The success settlement *)

\* Publish was called and answered 2xx
PublishedOk == Processed /\ "publish" \in last.calls /\ last.resp.status = 200

\* the five writes of the settlement
ScheduleSettled ==
  LET sc == db.schedules[last.sid]
  IN /\ sc.status = "POSTED" /\ sc.postedAt = now
     /\ sc.attemptCount = Before.s.attemptCount + 1
     /\ sc.lastError = NONE /\ sc.nextAttemptAt = NULL
AccountSettled ==
  LET a == db.accounts[last.accountId]
  IN a.status = "ACTIVE" /\ a.healthMessage = NONE /\ a.lastPostedAt = now
AttemptWritten ==
  /\ Len(db.attempts) = Len(Before.attempts) + 1
  /\ SubSeq(db.attempts, 1, Len(Before.attempts)) = Before.attempts
  /\ LET row == db.attempts[Len(db.attempts)]
     IN /\ row.scheduleId = last.sid /\ row.status = "SUCCESS"
        /\ row.attemptNo = Before.s.attemptCount + 1
SnapshotWritten ==
  /\ Len(db.snapshots) = Len(Before.snapshots) + 1
  /\ db.snapshots[Len(db.snapshots)].accountId = last.accountId
MetricWritten == db.metrics = Append(Before.metrics, last.sid)

\* none of them
NothingSettled ==
  /\ db.schedules[last.sid] = Before.s
  /\ db.accounts[last.accountId].lastPostedAt = Before.account.lastPostedAt
  /\ db.attempts = Before.attempts
  /\ db.snapshots = Before.snapshots
  /\ db.metrics = Before.metrics

\* C23: after a 2xx from Publish the schedule update to POSTED, the account
\* update, the SUCCESS attempt row, the rate-limit snapshot and the
\* PostMetric row are all persisted or none is; in every state a schedule is
\* POSTED exactly when it has a SUCCESS attempt row and exactly when it has a
\* PostMetric row.
C23_SuccessAllOrNothing ==
  /\ PublishedOk =>
       \/ /\ ScheduleSettled /\ AccountSettled /\ AttemptWritten
          /\ SnapshotWritten /\ MetricWritten
       \/ NothingSettled
  /\ \A i \in ScheduleIds :
       /\ db.schedules[i].status = "POSTED"
            <=> \E k \in AttemptRowsOf(db.attempts, i) : db.attempts[k].status = "SUCCESS"
       /\ db.schedules[i].status = "POSTED"
            <=> \E k \in DOMAIN db.metrics : db.metrics[k] = i

\* the store failed under the settlement after Publish had answered 2xx, and
\* nothing of it is kept
C23_Witness ==
  /\ PublishedOk /\ last.outcome = "threw"
  /\ NothingSettled
  /\ db.schedules[last.sid].status # "POSTED"

----------------------------------------------------------------------------
(* The similarity guard *)

BodyOf(i) == db.variants[db.schedules[i].contentVariantId].body

\* the bodies POSTED before the call, by any account, inside the window:
\* those of earlier cycles and those published earlier in this one
CorpusBefore ==
  {BodyOf(i) : i \in {j \in ScheduleIds \ {last.sid} :
                        /\ db.schedules[j].status = "POSTED"
                        /\ db.schedules[j].postedAt # NULL
                        /\ db.schedules[j].postedAt >= now - RecentWindowMinutes}}

TooSimilarToCorpus ==
  \E b \in CorpusBefore :
    100 * jaccardSimilarity(BodyOf(last.sid), b)[1]
      >= SimilarityThresholdPct * jaccardSimilarity(BodyOf(last.sid), b)[2]

MonthPostsBefore ==
  Cardinality({i \in ScheduleIds \ {last.sid} :
     /\ db.schedules[i].accountId = last.accountId
     /\ db.schedules[i].status = "POSTED"
     /\ db.schedules[i].postedAt # NULL
     /\ db.schedules[i].postedAt >= startOfMonth(now)})

MonthQuotaReached == MonthPostsBefore >= Before.account.monthlyPostLimit

SimilarityBlocked ==
  /\ last.outcome = "blocked"
  /\ "publish" \notin last.calls
  /\ db.schedules[last.sid].status = "BLOCKED"
  /\ db.schedules[last.sid].lastError = "Content too similar to recent published posts."

\* C24 as stated: a schedule whose body is too similar to a body of the
\* corpus is not published and becomes BLOCKED with the similarity reason.
C24_TooSimilarAlwaysBlocked ==
  (Clean /\ TooSimilarToCorpus) => SimilarityBlocked

\* C24: a schedule whose body is too similar to a body of the corpus is never
\* published; when its processing reaches the similarity check (risk gate
\* reached, pacing interval over, daily and monthly quota not reached) it
\* becomes BLOCKED with the similarity reason.
C24_TooSimilarNeverPublished ==
  /\ (Processed /\ TooSimilarToCorpus) => "publish" \notin last.calls
  /\ (Clean /\ TooSimilarToCorpus /\ ReachedRiskGate /\ ~TooSoon
        /\ ~QuotaReached /\ ~MonthQuotaReached) => SimilarityBlocked

\* a body published for one account in this cycle blocks the same body of
\* another account later in the cycle
C24_Witness ==
  /\ Clean /\ SimilarityBlocked
  /\ cyc.phase = "running" /\ cyc.summary.posted >= 1
  /\ \E i \in ScheduleIds :
       /\ db.schedules[i].status = "POSTED" /\ db.schedules[i].postedAt = now
       /\ db.schedules[i].accountId # last.accountId

----------------------------------------------------------------------------
(* Quotas (SpecQuota) *)

PostedOf(a) ==
  {i \in ScheduleIds : /\ db.schedules[i].accountId = a
                       /\ db.schedules[i].status = "POSTED"
                       /\ db.schedules[i].postedAt # NULL}

DayOf(t) == t \div MinutesPerDay
MonthOf(t) == t \div MinutesPerMonth

\* C25: for every account the POSTED schedules whose postedAt falls in one
\* day number at most dailyPostLimit, and those whose postedAt falls in one
\* month at most monthlyPostLimit.
C25_QuotasRespected ==
  \A a \in Accounts : \A i \in PostedOf(a) :
    /\ Cardinality({j \in PostedOf(a) :
                      DayOf(db.schedules[j].postedAt) = DayOf(db.schedules[i].postedAt)})
         <= db.accounts[a].dailyPostLimit
    /\ Cardinality({j \in PostedOf(a) :
                      MonthOf(db.schedules[j].postedAt) = MonthOf(db.schedules[i].postedAt)})
         <= db.accounts[a].monthlyPostLimit

\* an account that posted on two days of the month has its third schedule
\* blocked by the monthly quota on another day
C25_Witness ==
  /\ Clean /\ last.outcome = "blocked"
  /\ db.schedules[last.sid].lastError =
        "Monthly quota reached (" \o ToString(Before.account.monthlyPostLimit) \o ")."
  /\ Cardinality(PostedOf(last.accountId)) = Before.account.monthlyPostLimit
  /\ \A i \in PostedOf(last.accountId) : DayOf(db.schedules[i].postedAt) # DayOf(now)

----------------------------------------------------------------------------
(* Pacing *)

\* C26: two POSTED schedules of one account have postedAt values at least
\* minIntervalMinutes apart, and the account's lastPostedAt is the latest
\* postedAt among its POSTED schedules (null when it has none).
C26_PostsPaced ==
  \A a \in Accounts :
    /\ \A i, j \in PostedOf(a) :
         (i # j /\ db.schedules[i].postedAt <= db.schedules[j].postedAt)
           => db.schedules[j].postedAt - db.schedules[i].postedAt
                >= db.accounts[a].minIntervalMinutes
    /\ IF PostedOf(a) = {} THEN db.accounts[a].lastPostedAt = NULL
       ELSE /\ \E i \in PostedOf(a) : db.accounts[a].lastPostedAt = db.schedules[i].postedAt
            /\ \A i \in PostedOf(a) : db.schedules[i].postedAt <= db.accounts[a].lastPostedAt

\* a schedule rescheduled for pacing was posted exactly minIntervalMinutes
\* after the account's previous post
C26_Witness ==
  \E a \in Accounts : \E i, j \in PostedOf(a) :
    /\ i # j
    /\ db.schedules[j].postedAt - db.schedules[i].postedAt = db.accounts[a].minIntervalMinutes
    /\ db.schedules[j].plannedAt = db.schedules[j].postedAt

----------------------------------------------------------------------------
(* Token expiry (SpecTokens) *)

\* the call just made found the account's token expired
TokenExpired ==
  /\ Processed
  /\ Before.account.tokenExpiresAt # NULL /\ Before.account.tokenExpiresAt <= now

ProxyResolved == resolveProxyConfig([account |-> Before.account]).error = NONE

\* no refresh token is stored, RefreshToken answered a failure, or the
\* refresh flow threw (the network failed, or the stored refresh token could
\* not be decrypted)
RefreshUnavailable ==
  \/ Before.account.refreshTokenEncrypted = NoSecret
  \/ ~DecryptOk(Before.account.refreshTokenEncrypted)
  \/ last.refresh.kind \in {"fail", "throw"}

TokenColumnsKept ==
  /\ db.accounts[last.accountId].accessTokenEncrypted = Before.account.accessTokenEncrypted
  /\ db.accounts[last.accountId].refreshTokenEncrypted = Before.account.refreshTokenEncrypted
  /\ db.accounts[last.accountId].tokenExpiresAt = Before.account.tokenExpiresAt

\* C27 as stated: with tokenExpiresAt <= now and no refresh token stored, a
\* failure from RefreshToken or a throw in the refresh flow, the schedule
\* becomes BLOCKED, the account status becomes TOKEN_EXPIRED, the stored
\* access token, refresh token and tokenExpiresAt are unchanged and Publish
\* is not called.
C27_ExpiredTokenDemotes ==
  (Clean /\ TokenExpired /\ RefreshUnavailable) =>
    /\ db.schedules[last.sid].status = "BLOCKED"
    /\ db.accounts[last.accountId].status = "TOKEN_EXPIRED"
    /\ TokenColumnsKept
    /\ "publish" \notin last.calls

\* C27: with tokenExpiresAt <= now and no refresh token stored, a failure
\* from RefreshToken or a throw in the refresh flow, Publish is not called,
\* the stored access token, refresh token and tokenExpiresAt are unchanged
\* and the schedule becomes BLOCKED; the account status becomes TOKEN_EXPIRED
\* when the proxy configuration resolved, and is left as it was, with no
\* Platform call made, when the proxy step blocked the schedule first.
C27_ExpiredTokenBlocks ==
  (TokenExpired /\ RefreshUnavailable) =>
    /\ "publish" \notin last.calls
    /\ TokenColumnsKept
    /\ Clean => db.schedules[last.sid].status = "BLOCKED"
    /\ (Clean /\ ProxyResolved) =>
         /\ db.accounts[last.accountId].status = "TOKEN_EXPIRED"
         /\ db.accounts[last.accountId].healthMessage = db.schedules[last.sid].lastError
    /\ (Clean /\ ~ProxyResolved) =>
         /\ last.calls = {}
         /\ db.accounts[last.accountId].status = Before.account.status
         /\ db.accounts[last.accountId].healthMessage = Before.account.healthMessage

\* RefreshToken answered a failure for an ACTIVE account with an expired
\* token: the schedule is BLOCKED and the account demoted
C27_Witness ==
  /\ Clean /\ TokenExpired /\ ProxyResolved
  /\ last.refresh.kind = "fail"
  /\ Before.account.status = "ACTIVE"
  /\ db.schedules[last.sid].status = "BLOCKED"
  /\ db.accounts[last.accountId].status = "TOKEN_EXPIRED"

\* the settlement of the call just made wrote nothing after Publish was
\* called: the account row is the one Publish was called with
AccountAsAtPublish ==
  /\ "publish" \in last.calls
  /\ last.outcome = "threw"
  /\ db.attempts = Before.attempts

\* C28: when tokenExpiresAt <= now at processing time, Publish is called only
\* after a successful RefreshToken and with the newly issued access token; by
\* then the stored access token and tokenExpiresAt are replaced, the stored
\* refresh token is replaced only when a new one was returned, the status is
\* ACTIVE and the healthMessage null.
C28_PublishAfterRefreshOnly ==
  (TokenExpired /\ "publish" \in last.calls) =>
    LET a == db.accounts[last.accountId]
    IN /\ "refresh" \in last.calls /\ last.refresh.kind = "ok"
       /\ last.token # NONE
       /\ DecryptOk(a.accessTokenEncrypted)
       /\ decryptSecret(a.accessTokenEncrypted) = last.token
       /\ a.accessTokenEncrypted # Before.account.accessTokenEncrypted
       /\ a.tokenExpiresAt = NULL \/ a.tokenExpiresAt > now
       /\ IF last.refresh.rotate
          THEN /\ a.refreshTokenEncrypted # Before.account.refreshTokenEncrypted
               /\ DecryptOk(a.refreshTokenEncrypted)
          ELSE a.refreshTokenEncrypted = Before.account.refreshTokenEncrypted
       /\ (AccountAsAtPublish \/ PublishedOk) =>
            (a.status = "ACTIVE" /\ a.healthMessage = NONE)

\* a RATE_LIMITED account with an expired token was refreshed and the network
\* failed under Publish: the row shows the new token and ACTIVE
C28_Witness ==
  /\ TokenExpired /\ AccountAsAtPublish
  /\ last.resp.kind = "network_error"
  /\ Before.account.status = "RATE_LIMITED"
  /\ db.accounts[last.accountId].status = "ACTIVE"
  /\ last.refresh.kind = "ok"

----------------------------------------------------------------------------
(* Unusable proxy settings and secrets (SpecTokens) *)

ProxyIncomplete ==
  /\ Before.account.proxyEnabled
  /\ \/ Before.account.proxyProtocol = NONE
     \/ Before.account.proxyHost = NONE
     \/ Before.account.proxyPort = NULL

ProxyPasswordBad ==
  /\ Before.account.proxyEnabled
  /\ Before.account.proxyPasswordEncrypted # NoSecret
  /\ ~DecryptOk(Before.account.proxyPasswordEncrypted)

AccessTokenBad == ~DecryptOk(Before.account.accessTokenEncrypted)

SecretReasons ==
  { "Proxy is enabled but proxy settings are incomplete.",
    "Cannot decrypt proxy password. Check TOKEN_ENCRYPTION_KEY.",
    "Cannot decrypt access token. Fix TOKEN_ENCRYPTION_KEY." }

\* the reason of the first of the three checks that fails
SecretReason ==
  IF ProxyIncomplete THEN "Proxy is enabled but proxy settings are incomplete."
  ELSE IF ProxyPasswordBad THEN "Cannot decrypt proxy password. Check TOKEN_ENCRYPTION_KEY."
  ELSE "Cannot decrypt access token. Fix TOKEN_ENCRYPTION_KEY."

\* no Platform call was made and the account row is as it was
NoCallAccountKept ==
  /\ last.calls = {}
  /\ db.accounts[last.accountId] = Before.account

BlockedForSecret ==
  /\ db.schedules[last.sid].status = "BLOCKED"
  /\ db.schedules[last.sid].lastError = SecretReason
  /\ db.schedules[last.sid].nextAttemptAt = NULL

----------------------------------------------------------------------------
(* What a cycle leaves alone (SpecFrame) *)

\* the row is PENDING with plannedAt <= t or FAILED with nextAttemptAt <= t
EligibleAt(sc, t) ==
  \/ sc.status = "PENDING" /\ sc.plannedAt <= t
  \/ sc.status = "FAILED" /\ sc.nextAttemptAt # NULL /\ sc.nextAttemptAt <= t

\* the row the running cycle is about to process
InHand(i) ==
  /\ cyc.phase = "running"
  /\ cyc.idx <= Len(cyc.due)
  /\ cyc.due[cyc.idx].id = i

\* C30: a step changes a schedule row only when the row is the one a cycle
\* selected and is processing, and the row was PENDING with plannedAt <= now
\* or FAILED with nextAttemptAt <= now when it was selected; rows that are
\* POSTED, BLOCKED, CANCELED, PROCESSING or not yet due are unchanged by every
\* step, so POSTED and BLOCKED are never left.
C30_CycleFrame ==
  [][\A i \in DOMAIN db.schedules :
       /\ db'.schedules[i] # db.schedules[i] =>
            /\ InHand(i)
            /\ cyc.due[cyc.idx].s = db.schedules[i]
            /\ EligibleAt(db.schedules[i], now)
       /\ db.schedules[i].status \in {"POSTED", "BLOCKED", "CANCELED", "PROCESSING"} =>
            db'.schedules[i] = db.schedules[i]
       /\ ~EligibleAt(db.schedules[i], now) => db'.schedules[i] = db.schedules[i]
    ]_vars

\* a cycle at minute 5 settled a due schedule next to a row posted by an
\* earlier cycle, and the CANCELED and the PROCESSING row are as they were
C30_Witness ==
  /\ Processed /\ now = 5
  /\ db.schedules[last.sid] # Before.s
  /\ db.schedules[last.sid].status = "BLOCKED"
  /\ \E j \in ScheduleIds :
       db.schedules[j].status = "POSTED" /\ db.schedules[j].postedAt < now
  /\ db.schedules[1] = FrameStore.schedules[1]
  /\ db.schedules[2] = FrameStore.schedules[2]

----------------------------------------------------------------------------
(* Processing order (SpecOrder) *)

\* (priority, plannedAt) of x is not above that of y
KeyLeq(x, y) ==
  \/ x.priority < y.priority
  \/ x.priority = y.priority /\ x.plannedAt <= y.plannedAt

\* the place of schedule i in the running cycle's selection
PlaceOf(i) == CHOOSE k \in DOMAIN cyc.due : cyc.due[k].id = i

\* C31: the selected rows are in ascending (priority, plannedAt) order, they
\* are processed in that order, at most one per account, and the one
\* processed for an account has the least (priority, plannedAt) among the
\* account's selected rows; nextAttemptAt plays no part in the order.
C31_ProcessedInOrder ==
  cyc.phase = "running" =>
    /\ \A k, l \in DOMAIN cyc.due :
         k < l => KeyLeq(cyc.due[k].s, cyc.due[l].s)
    /\ \A k, l \in DOMAIN cyc.processed :
         k < l => /\ PlaceOf(cyc.processed[k].id) < PlaceOf(cyc.processed[l].id)
                  /\ cyc.processed[k].accountId # cyc.processed[l].accountId
    /\ \A k \in DOMAIN cyc.processed : \A l \in DOMAIN cyc.due :
         cyc.due[l].s.accountId = cyc.processed[k].accountId
           => KeyLeq(cyc.due[PlaceOf(cyc.processed[k].id)].s, cyc.due[l].s)

\* a FAILED row planned at 0 whose retry was due at 5 was processed before a
\* PENDING row of the same priority planned at 2
C31_Witness ==
  /\ cyc.phase = "running" /\ Len(cyc.processed) = 2
  /\ LET x == cyc.due[PlaceOf(cyc.processed[1].id)].s
         y == cyc.due[PlaceOf(cyc.processed[2].id)].s
     IN /\ x.status = "FAILED" /\ y.status = "PENDING"
        /\ x.priority = y.priority
        /\ x.plannedAt < y.plannedAt /\ y.plannedAt < x.nextAttemptAt

----------------------------------------------------------------------------
(* Overlapping cycles (SpecOverlap) *)

SuccessRowsOf(d, i) ==
  {k \in DOMAIN d.attempts : d.attempts[k].scheduleId = i /\ d.attempts[k].status = "SUCCESS"}

MetricRowsOf(d, i) == {k \in DOMAIN d.metrics : d.metrics[k] = i}

\* C32: with two invocations that selected the same schedule, a schedule
\* once POSTED stays POSTED: no step changes its status or its attemptCount,
\* and it keeps exactly one SUCCESS attempt row and one PostMetric row.
C32_PostedStaysPosted ==
  [][\A i \in DOMAIN db.schedules :
       db.schedules[i].status = "POSTED" =>
         /\ db'.schedules[i].status = "POSTED"
         /\ db'.schedules[i].attemptCount = db.schedules[i].attemptCount
         /\ Cardinality(SuccessRowsOf(db', i)) = 1
         /\ Cardinality(MetricRowsOf(db', i)) = 1
    ]_vars

----------------------------------------------------------------------------
(* Termination (SpecLive) *)

Unsettled(i) ==
  i \in DOMAIN db.schedules /\ db.schedules[i].status \in {"PENDING", "FAILED"}

Settled(i) ==
  i \in DOMAIN db.schedules /\ db.schedules[i].status \in {"POSTED", "BLOCKED"}

\* C33: with a fixed backlog, time advancing, cycles invoked repeatedly
\* without overlap and every Platform call answered, every schedule that is
\* PENDING or FAILED eventually becomes POSTED or BLOCKED.
C33_EverySettled ==
  \A i \in 1 .. MaxSchedules : Unsettled(i) ~> Settled(i)

\* a schedule that failed once and was then rescheduled for pacing has been
\* settled by its second attempt
C33_Witness ==
  /\ Processed /\ Settled(last.sid)
  /\ Before.s.status = "PENDING" /\ Before.s.attemptCount = 1
  /\ Before.s.plannedAt > 2
  /\ db.schedules[last.sid].attemptCount = 2

----------------------------------------------------------------------------
(* Rate limits *)

\* the reset instants the Platform gave with a 429 for the account, as the
\* attempt rows keep them
RateLimitResets(rows, accountId) ==
  {rows[k].rateLimitResetAt :
     k \in {j \in DOMAIN rows : /\ rows[j].accountId = accountId
                                /\ rows[j].httpStatus = 429
                                /\ rows[j].rateLimitResetAt # NULL}}

\* C34: after a Publish for an account was answered 429 with a resetAt, no
\* Publish call is made for any schedule of that account before resetAt.
C34_NoPublishBeforeReset ==
  (Processed /\ "publish" \in last.calls) =>
    \A resetAt \in RateLimitResets(Before.attempts, last.accountId) : now >= resetAt

----------------------------------------------------------------------------
(* Attempt rows *)

\* the attempt rows of every schedule carry pairwise distinct attemptNo values
AttemptNosDistinct ==
  \A k, l \in DOMAIN db.attempts :
    (k # l /\ db.attempts[k].scheduleId = db.attempts[l].scheduleId)
      => db.attempts[k].attemptNo # db.attempts[l].attemptNo

\* the call just made appended n attempt rows and kept the earlier ones
AttemptRowsAppended(n) ==
  /\ Len(db.attempts) = Len(Before.attempts) + n
  /\ SubSeq(db.attempts, 1, Len(Before.attempts)) = Before.attempts
  /\ \A k \in (Len(Before.attempts) + 1) .. Len(db.attempts) :
       db.attempts[k].scheduleId = last.sid

\* C35: a processed schedule whose outcome is posted, failed or blocked
\* appends exactly one attempt row and a rescheduled one appends none; the
\* attempt rows of one schedule carry pairwise distinct attemptNo values;
\* and a call that returns appends a rate-limit snapshot exactly when a
\* Publish response was received.
C35_OneAttemptRowPerOutcome ==
  /\ AttemptNosDistinct
  /\ Processed =>
       /\ last.outcome \in {"posted", "failed", "blocked"} => AttemptRowsAppended(1)
       /\ last.outcome = "rescheduled" => AttemptRowsAppended(0)
       /\ last.outcome # "threw" =>
            Len(db.snapshots) = Len(Before.snapshots)
                                  + (IF last.resp.kind = "response" THEN 1 ELSE 0)

----------------------------------------------------------------------------
(* Variants under concurrent dispatches (SpecVariants) *)

VariantsOf(contentId, accountId) ==
  {v \in DOMAIN db.variants :
     db.variants[v].contentId = contentId /\ db.variants[v].accountId = accountId}

\* C36: however dispatch requests for the same content interleave, the store
\* holds at most one variant row per content and account, and every schedule
\* row of that content and account names that variant.
C36_OneVariantPerAccount ==
  \A contentId \in Contents, accountId \in Accounts :
    /\ Cardinality(VariantsOf(contentId, accountId)) <= 1
    /\ \A i \in DOMAIN db.schedules :
         (db.schedules[i].contentId = contentId /\ db.schedules[i].accountId = accountId)
           => db.schedules[i].contentVariantId \in VariantsOf(contentId, accountId)

----------------------------------------------------------------------------
(* The dispatch transaction (SpecAtomic) *)

\* the schedule rows the dispatch just made added to the store
NewRows == SubSeq(db.schedules, Len(Before.schedules) + 1, Len(db.schedules))

\* what line 108 and 109 make of the payload's numbers
EffectiveStagger ==
  IF last.req.staggerMinutes.kind = "absent" THEN DefaultStagger
  ELSE Clamp(0, 120, last.req.staggerMinutes.tenths \div 10)
EffectivePriority ==
  IF last.req.priority.kind = "absent" THEN DefaultPriority
  ELSE Clamp(1, 1000, last.req.priority.tenths \div 10)

\* C37: a dispatch in which the creation of a variant, the insertion of a
\* schedule (for a reason other than a duplicate key) or the activity-log
\* write fails answers 500 and leaves the variants, the schedules and the
\* log as they were; a dispatch that answers 200 has persisted a variant and
\* a schedule for every target account and exactly one content_dispatched
\* entry that records mode, staggerMinutes and priority.
C37_DispatchAtomic ==
  Dispatched =>
    /\ last.fault # "none" =>
         /\ last.http = 500
         /\ db.variants = Before.variants
         /\ db.schedules = Before.schedules
         /\ db.logs = Before.logs
    /\ last.http = 200 =>
         /\ db.logs = Append(Before.logs,
                             [event |-> "content_dispatched", created |-> last.created,
                              meta |-> [mode |-> last.req.mode,
                                        staggerMinutes |-> EffectiveStagger,
                                        priority |-> EffectivePriority]])
         /\ Len(NewRows) = Len(last.accs) /\ last.created = Len(last.accs)
         /\ \A a \in last.req.accountIds :
              /\ \E v \in DOMAIN db.variants :
                   db.variants[v].contentId = last.req.contentId
                     /\ db.variants[v].accountId = a
              /\ \E k \in DOMAIN NewRows :
                   /\ NewRows[k].accountId = a
                   /\ NewRows[k].contentId = last.req.contentId
                   /\ db.variants[NewRows[k].contentVariantId].accountId = a

\* the activity-log write failed after the variants and the schedules of two
\* accounts had been written in the transaction: none of them is in the store
C37_Witness ==
  /\ Dispatched /\ last.fault = "log" /\ last.http = 500
  /\ Len(last.accs) = 2
  /\ db.schedules = <<>> /\ Len(db.variants) = 1 /\ db.logs = <<>>

\* the instant the dispatch counts from: scheduleAt, or now when it is absent
DispatchBase == IF last.req.scheduleAt = NULL THEN now ELSE last.req.scheduleAt

\* C38: a dispatch that answers 200 for k target accounts has created, for
\* the i-th account the query returned (i = 0..k-1), one schedule with
\* plannedAt = scheduleAt + i * staggerMinutes, where staggerMinutes is the
\* payload's number floored and clamped to [0,120] (20 when absent) and the
\* priority is the payload's number floored and clamped to [1,1000] (100
\* when absent); with staggerMinutes > 0 the k plannedAt values are pairwise
\* distinct; every created schedule is PENDING with attemptCount 0.
C38_StaggeredPlan ==
  (Dispatched /\ last.http = 200) =>
    /\ EffectiveStagger \in 0 .. 120 /\ EffectivePriority \in 1 .. 1000
    /\ Len(NewRows) = Len(last.accs)
    /\ \A k \in DOMAIN NewRows :
         /\ NewRows[k].accountId = last.accs[k]
         /\ NewRows[k].plannedAt = DispatchBase + (k - 1) * EffectiveStagger
         /\ NewRows[k].priority = EffectivePriority
         /\ NewRows[k].status = "PENDING"
         /\ NewRows[k].attemptCount = 0
    /\ EffectiveStagger > 0 =>
         \A k, l \in DOMAIN NewRows : k # l => NewRows[k].plannedAt # NewRows[l].plannedAt

\* two accounts dispatched with staggerMinutes 150 and priority 2000.5 in the
\* payload: the rows are 120 minutes apart and carry priority 1000
C38_Witness ==
  /\ Dispatched /\ last.http = 200
  /\ last.req.staggerMinutes = Tenths(1500) /\ last.req.priority = Tenths(20005)
  /\ Len(NewRows) = 2
  /\ NewRows[2].plannedAt = NewRows[1].plannedAt + 120
  /\ NewRows[1].priority = 1000

----------------------------------------------------------------------------
(* Default idempotency keys *)

\* C39: every step that creates schedules, through the dispatch route or
\* through the schedules route, gives each new row the key
\* contentId:accountId:plannedAt, and leaves no new row sharing its contentId,
\* accountId and plannedAt with another row of the store.
C39_DefaultKey ==
  [][\A i \in DOMAIN db'.schedules :
       i > Len(db.schedules) =>
         /\ db'.schedules[i].idempotencyKey =
              db'.schedules[i].contentId \o ":" \o db'.schedules[i].accountId
                \o ":" \o ToString(db'.schedules[i].plannedAt)
         /\ \A j \in DOMAIN db'.schedules :
              (/\ db'.schedules[j].contentId = db'.schedules[i].contentId
               /\ db'.schedules[j].accountId = db'.schedules[i].accountId
               /\ db'.schedules[j].plannedAt = db'.schedules[i].plannedAt) => j = i
    ]_vars

----------------------------------------------------------------------------
(* Mock mode (SpecPlatform) *)

\* C40: with MOCK_X_API = "1", whatever the client credentials and whatever
\* the Platform would answer, publishPostToX returns ok with status 200 and
\* refreshAccessTokenOnX returns ok with an access token.
C40_MockAlwaysSucceeds ==
  calc.stage \in {"published", "refreshed"} /\ calc.env.MOCK_X_API = "1" =>
    /\ ~calc.result.threw /\ calc.result.ok
    /\ calc.stage = "published" => calc.result.status = 200
    /\ calc.stage = "refreshed" => calc.result.accessToken # NONE

====
